---- MODULE Spec2Model ----
(***************************************************************************)
(* Bibliography reconciliation scripts (clean_publications_v5.py,          *)
(* audit_publications.py, merge_pdfs_v3.py, count_publications.py,         *)
(* find_missing.py).                                                       *)
(*                                                                         *)
(* A Python str is modelled as a sequence of one-character strings, and a  *)
(* Python index p (0-based) as the position p + 1.  The alphabet is ASCII. *)
(* A dict is modelled as a sequence of [name, value] records in insertion  *)
(* order (Python dicts iterate in insertion order).                        *)
(***************************************************************************)
EXTENDS Integers, Sequences, FiniteSets, TLC

VARIABLES
    entries,           \* deduplicate_by_doi: the argument list
    idx,               \* deduplicate_by_doi: number of entries consumed by the for loop
    seen_dois,         \* deduplicate_by_doi: seen_dois, as a sequence of [name, value]
    seen_titles,       \* deduplicate_by_doi: the keys of seen_titles
    unique_entries,    \* deduplicate_by_doi: unique_entries
    kept_idx,          \* history: the input position each element of unique_entries came from
    key_counts,        \* main: the key registry handed to every format_entry call
    formatted_entries, \* main: formatted_entries
    written_keys,      \* history: the key each format_entry call wrote, in call order
    op,                \* a call of a pure function: the function called
    arg,               \* a call of a pure function: its arguments
    res                \* a call of a pure function: the values returned so far

dedupVars  == <<entries, idx, seen_dois, seen_titles, unique_entries, kept_idx>>
formatVars == <<key_counts, formatted_entries, written_keys>>
callVars   == <<op, arg, res>>
vars == <<entries, idx, seen_dois, seen_titles, unique_entries, kept_idx,
          key_counts, formatted_entries, written_keys, op, arg, res>>

-----------------------------------------------------------------------------
(* Characters and the str methods the scripts use.                         *)

LowerSeq == <<"a","b","c","d","e","f","g","h","i","j","k","l","m",
              "n","o","p","q","r","s","t","u","v","w","x","y","z">>
UpperSeq == <<"A","B","C","D","E","F","G","H","I","J","K","L","M",
              "N","O","P","Q","R","S","T","U","V","W","X","Y","Z">>
LowerChars == {LowerSeq[i] : i \in 1..Len(LowerSeq)}
UpperChars == {UpperSeq[i] : i \in 1..Len(UpperSeq)}
DigitChars == {"0","1","2","3","4","5","6","7","8","9"}
AlphaChars == LowerChars \cup UpperChars
AlnumChars == AlphaChars \cup DigitChars
\* regex \w and \s on ASCII text
WordChars  == AlnumChars \cup {"_"}
SpaceChars == {" ", "\n", "\t", "\r"}

IsWord(c)  == c \in WordChars
IsSpace(c) == c \in SpaceChars

LowerChar(c) ==
    IF c \in UpperChars
    THEN LowerSeq[CHOOSE i \in 1..Len(UpperSeq) : UpperSeq[i] = c]
    ELSE c

\* str.lower()
Lower(s) == [i \in 1..Len(s) |-> LowerChar(s[i])]

\* s[a:b] for positions: the characters at positions a .. b-1
Slice(s, a, b) == SubSeq(s, a, b - 1)

\* s[a:]
From(s, a) == SubSeq(s, a, Len(s))

\* the text p occurs in s at position i
MatchAt(s, i, p) ==
    /\ i >= 1
    /\ i + Len(p) - 1 <= Len(s)
    /\ \A k \in 1..Len(p) : s[i + k - 1] = p[k]

\* str.find(p, from): the first position >= from where p occurs, 0 when none
RECURSIVE Find(_, _, _)
Find(s, p, from) ==
    IF from + Len(p) - 1 > Len(s) THEN 0
    ELSE IF MatchAt(s, from, p) THEN from
    ELSE Find(s, p, from + 1)

\* p in s
Contains(s, p) == Find(s, p, 1) # 0

\* the first position >= i whose character is not in the class cs (Len(s)+1 when none)
RECURSIVE SkipWhile(_, _, _)
SkipWhile(s, i, cs) ==
    IF i > Len(s) THEN i
    ELSE IF s[i] \in cs THEN SkipWhile(s, i + 1, cs)
    ELSE i

\* str.lstrip(), str.rstrip(), str.strip() with no argument
LStrip(s) == From(s, SkipWhile(s, 1, SpaceChars))
RStrip(s) ==
    LET keep == {j \in 1..Len(s) : s[j] \notin SpaceChars}
    IN  IF keep = {} THEN <<>>
        ELSE SubSeq(s, 1, CHOOSE j \in keep : \A k \in keep : j >= k)
Strip(s) == LStrip(RStrip(s))

\* str.rstrip(c) for a one-character argument
RStripChar(s, c) ==
    LET keep == {j \in 1..Len(s) : s[j] # c}
    IN  IF keep = {} THEN <<>>
        ELSE SubSeq(s, 1, CHOOSE j \in keep : \A k \in keep : j >= k)

\* re.sub(r'[class]', '', s): drop every character of the class drop
RECURSIVE DropChars(_, _)
DropChars(s, drop) ==
    IF s = <<>> THEN <<>>
    ELSE IF Head(s) \in drop THEN DropChars(Tail(s), drop)
         ELSE <<Head(s)>> \o DropChars(Tail(s), drop)

\* re.sub(r'[^class]', '', s): keep only the characters of the class keep
RECURSIVE KeepChars(_, _)
KeepChars(s, keep) ==
    IF s = <<>> THEN <<>>
    ELSE IF Head(s) \in keep THEN <<Head(s)>> \o KeepChars(Tail(s), keep)
         ELSE KeepChars(Tail(s), keep)

\* re.sub(r'[^class]', r, s): replace every character outside keep by r
MapOutside(s, keep, r) == [i \in 1..Len(s) |-> IF s[i] \in keep THEN s[i] ELSE r]

\* str.replace(p, r): non-overlapping occurrences of p, left to right
RECURSIVE Replace(_, _, _)
Replace(s, p, r) ==
    LET i == Find(s, p, 1)
    IN  IF i = 0 \/ p = <<>> THEN s
        ELSE SubSeq(s, 1, i - 1) \o r \o Replace(From(s, i + Len(p)), p, r)

\* str.split(): the maximal runs of non-whitespace characters
RECURSIVE SplitWords(_)
SplitWords(s) ==
    LET a == SkipWhile(s, 1, SpaceChars)
    IN  IF a > Len(s) THEN <<>>
        ELSE LET stops == {j \in a..Len(s) : s[j] \in SpaceChars}
                 b == IF stops = {} THEN Len(s) + 1
                      ELSE CHOOSE j \in stops : \A k \in stops : j <= k
             IN  <<Slice(s, a, b)>> \o SplitWords(From(s, b))

\* ' '.join(words)
RECURSIVE JoinSpace(_)
JoinSpace(ws) ==
    IF ws = <<>> THEN <<>>
    ELSE IF Len(ws) = 1 THEN ws[1]
         ELSE ws[1] \o <<" ">> \o JoinSpace(Tail(ws))

\* re.sub(r'\s+', ' ', s): every maximal whitespace run becomes one space
RECURSIVE CollapseSpace(_)
CollapseSpace(s) ==
    IF s = <<>> THEN <<>>
    ELSE IF Head(s) \in SpaceChars
         THEN <<" ">> \o CollapseSpace(From(s, SkipWhile(s, 1, SpaceChars)))
         ELSE <<Head(s)>> \o CollapseSpace(Tail(s))

\* dict lookups on a sequence of [name, value] records
HasKey(d, n) == \E i \in 1..Len(d) : d[i].name = n
Get(d, n, default) ==
    IF HasKey(d, n) THEN d[CHOOSE i \in 1..Len(d) : d[i].name = n].value
    ELSE default
\* d[n] = v (n keeps its place when it is already a key)
Put(d, n, v) ==
    IF HasKey(d, n)
    THEN [i \in 1..Len(d) |-> IF d[i].name = n THEN [name |-> n, value |-> v] ELSE d[i]]
    ELSE Append(d, [name |-> n, value |-> v])

-----------------------------------------------------------------------------
(* clean_publications_v5.py: the field tokenizer.                          *)

\* extract_braced_content(s, start_pos): [ok, content, next]; ok = FALSE is the
\* (None, start_pos) return.  depth counts as the while loop does.
RECURSIVE BraceScan(_, _, _, _)
BraceScan(s, start, pos, depth) ==
    IF pos > Len(s) THEN [ok |-> FALSE, content |-> <<>>, next |-> start]
    ELSE IF s[pos] = "{" THEN BraceScan(s, start, pos + 1, depth + 1)
    ELSE IF s[pos] = "}"
         THEN IF depth - 1 = 0
              THEN [ok |-> TRUE, content |-> Slice(s, start + 1, pos), next |-> pos + 1]
              ELSE BraceScan(s, start, pos + 1, depth - 1)
    ELSE BraceScan(s, start, pos + 1, depth)

ExtractBracedMutant(s, start_pos) == [ok |-> FALSE, content |-> <<>>, next |-> 1]
extract_braced_content(s, start_pos) ==
    IF start_pos > Len(s) \/ s[start_pos] # "{"
    THEN [ok |-> FALSE, content |-> <<>>, next |-> start_pos]
    ELSE BraceScan(s, start_pos, start_pos, 0)

\* re.search(r'author\s*=\s*', s, re.IGNORECASE): the position after the match, 0 when none
AuthorWord == <<"a","u","t","h","o","r">>
RECURSIVE AuthorMatchFrom(_, _, _)
AuthorMatchFrom(s, low, i) ==
    IF i + Len(AuthorWord) - 1 > Len(s) THEN 0
    ELSE LET e == SkipWhile(s, i + Len(AuthorWord), SpaceChars)
         IN  IF MatchAt(low, i, AuthorWord) /\ e <= Len(s) /\ s[e] = "="
             THEN SkipWhile(s, e + 1, SpaceChars)
             ELSE AuthorMatchFrom(s, low, i + 1)
AuthorMatchEnd(s) == AuthorMatchFrom(s, Lower(s), 1)

\* parse_author_field(fields_str): [ok, value]; ok = FALSE is the None return
parse_author_field(fields_str) ==
    LET start == AuthorMatchEnd(fields_str)
        none  == [ok |-> FALSE, value |-> <<>>]
    IN  IF start = 0 THEN none
        ELSE IF start <= Len(fields_str) /\ fields_str[start] = "{"
             THEN LET r == extract_braced_content(fields_str, start)
                  IN  [ok |-> r.ok, value |-> r.content]
        ELSE IF start <= Len(fields_str) /\ fields_str[start] = "\""
             THEN LET end == Find(fields_str, <<"\"">>, start + 1)
                  IN  IF end > start
                      THEN [ok |-> TRUE, value |-> Slice(fields_str, start + 1, end)]
                      ELSE none
        ELSE none

\* re.search(r'(\w+)\s*=\s*', s[pos:]): [found, name, end]; end is the position
\* after the match.  \w+ is greedy, so a match starts at the first word character
\* whose word run is followed by optional whitespace and '='; when a run is not,
\* no position inside it starts a match either.
RECURSIVE FieldMatch(_, _)
FieldMatch(s, pos) ==
    IF pos > Len(s) THEN [found |-> FALSE, name |-> <<>>, end |-> 0]
    ELSE IF ~IsWord(s[pos]) THEN FieldMatch(s, pos + 1)
    ELSE LET w == SkipWhile(s, pos, WordChars)
             e == SkipWhile(s, w, SpaceChars)
         IN  IF e <= Len(s) /\ s[e] = "="
             THEN [found |-> TRUE, name |-> Slice(s, pos, w),
                   end |-> SkipWhile(s, e + 1, SpaceChars)]
             ELSE FieldMatch(s, w)

\* one iteration of the while loop of parse_fields: [stop, pos, fields]
ParseStep(s, pos, fields) ==
    LET m == FieldMatch(s, pos)
        field_name  == Lower(m.name)
        field_start == m.end
    IN  IF ~m.found \/ field_start > Len(s)
        THEN [stop |-> TRUE, pos |-> pos, fields |-> fields]
        ELSE IF s[field_start] = "{"
        THEN LET r == extract_braced_content(s, field_start)
             IN  [stop |-> FALSE, pos |-> r.next,
                  fields |-> IF r.ok /\ ~HasKey(fields, field_name)
                             THEN Put(fields, field_name, r.content) ELSE fields]
        ELSE IF s[field_start] = "\""
        THEN LET end == Find(s, <<"\"">>, field_start + 1)
             IN  [stop |-> FALSE,
                  pos |-> IF end > field_start THEN end + 1 ELSE field_start + 1,
                  fields |-> IF end > field_start /\ ~HasKey(fields, field_name)
                             THEN Put(fields, field_name, Slice(s, field_start + 1, end))
                             ELSE fields]
        ELSE IF s[field_start] \in DigitChars
        THEN LET e == SkipWhile(s, field_start, DigitChars)
             IN  [stop |-> FALSE, pos |-> e,
                  fields |-> IF ~HasKey(fields, field_name)
                             THEN Put(fields, field_name, Slice(s, field_start, e))
                             ELSE fields]
        ELSE [stop |-> FALSE, pos |-> field_start + 1, fields |-> fields]

RECURSIVE ParseLoop(_, _, _)
ParseLoop(s, pos, fields) ==
    IF pos > Len(s) THEN fields
    ELSE LET st == ParseStep(s, pos, fields)
         IN  IF st.stop THEN fields ELSE ParseLoop(s, st.pos, st.fields)

\* parse_fields(fields_str): the dict, as [name, value] records in insertion order
parse_fields(fields_str) ==
    LET author == parse_author_field(fields_str)
        first  == IF author.ok /\ author.value # <<>>
                  THEN <<[name |-> AuthorWord, value |-> author.value]>>
                  ELSE <<>>
    IN  ParseLoop(fields_str, 1, first)

-----------------------------------------------------------------------------
(* clean_publications_v5.py: citation keys.                                *)

\* text.split(sep)[0]
BeforeFirst(s, sep) ==
    LET i == Find(s, sep, 1)
    IN  IF i = 0 THEN s ELSE SubSeq(s, 1, i - 1)

\* the accent characters listed in the first character class of the accent pattern
\* (the grave accent is written "GRAVE": a string of this language cannot hold it)
AccentChars == {"'", "GRAVE", "^", "\"", "~", "=", ".",
                "u", "v", "H", "t", "c", "d", "b", "k", "r", "o", "B"}

\* re.sub of the accent pattern: backslash, accent character, optional open brace,
\* one letter, optional close brace; replaced by the letter
RECURSIVE SubAccent(_)
SubAccent(s) ==
    IF s = <<>> THEN <<>>
    ELSE LET n == Len(s)
             braced == n >= 4 /\ s[3] = "{" /\ s[4] \in AlphaChars
             bare   == n >= 3 /\ s[3] \in AlphaChars
             hit    == n >= 2 /\ s[1] = "\\" /\ s[2] \in AccentChars /\ (braced \/ bare)
             letter == IF braced THEN s[4] ELSE s[3]
             e0     == IF braced THEN 5 ELSE 4
             e      == IF e0 <= n /\ s[e0] = "}" THEN e0 + 1 ELSE e0
         IN  IF hit THEN <<letter>> \o SubAccent(From(s, e))
             ELSE <<s[1]>> \o SubAccent(Tail(s))

\* re.sub(r'\{\\([a-zA-Z])\}', r'\1', s)
RECURSIVE SubBracedCommand(_)
SubBracedCommand(s) ==
    IF s = <<>> THEN <<>>
    ELSE IF /\ Len(s) >= 4
            /\ s[1] = "{" /\ s[2] = "\\" /\ s[3] \in AlphaChars /\ s[4] = "}"
         THEN <<s[3]>> \o SubBracedCommand(From(s, 5))
         ELSE <<s[1]>> \o SubBracedCommand(Tail(s))

\* get_first_author_lastname(author_str); <<>> stands for the None return
\* (the function never returns an empty string)
get_first_author_lastname(author_str) ==
    IF author_str = <<>> THEN <<>>
    ELSE LET first0 == Strip(BeforeFirst(author_str, <<" ","a","n","d"," ">>))
             first1 == SubAccent(first0)
             first2 == SubBracedCommand(first1)
             first_author == DropChars(first2, {"{", "}"})
             parts == SplitWords(first_author)
         IN  IF Contains(first_author, <<",">>)
             THEN KeepChars(Strip(BeforeFirst(first_author, <<",">>)), AlphaChars)
             ELSE IF parts # <<>>
                  THEN KeepChars(parts[Len(parts)], AlphaChars)
                  ELSE <<>>

\* the position after a match of r'^https?://(dx\.)?doi\.org/' (1 when none)
DoiPrefixEnd(s) ==
    LET http == <<"h","t","t","p">>
        a    == IF MatchAt(s, 1, http) THEN 5 ELSE 0
        b    == IF a # 0 /\ MatchAt(s, a, <<"s">>) THEN a + 1 ELSE a
        c    == IF b # 0 /\ MatchAt(s, b, <<":","/","/">>) THEN b + 3 ELSE 0
        d    == IF c # 0 /\ MatchAt(s, c, <<"d","x",".">>) THEN c + 3 ELSE c
        host == <<"d","o","i",".","o","r","g","/">>
    IN  IF d # 0 /\ MatchAt(s, d, host) THEN d + Len(host)
        ELSE IF c # 0 /\ MatchAt(s, c, host) THEN c + Len(host)
        ELSE 1

\* re.sub(r'^https?://(dx\.)?doi\.org/', '', doi)
StripDoiPrefix(doi) == From(doi, DoiPrefixEnd(doi))

\* s[-n:] and s[:n]
LastChars(s, n)  == IF Len(s) > n THEN SubSeq(s, Len(s) - n + 1, Len(s)) ELSE s
FirstChars(s, n) == IF Len(s) > n THEN SubSeq(s, 1, n) ELSE s

DoiSuffixLen   == 25
TitleSuffixLen == 20

UnknownName == <<"U","n","k","n","o","w","n">>
DoiWord     == <<"d","o","i">>
TitleWord   == <<"t","i","t","l","e">>
YearWord    == <<"y","e","a","r">>

\* the suffix generate_citation_key derives from a DOI: the resolver prefix is
\* removed, every character that is no letter or digit becomes '_', the last 25 stay
DoiSuffixMutant(doi) == LastChars(KeepChars(StripDoiPrefix(doi), AlnumChars), DoiSuffixLen)
DoiSuffix(doi) == LastChars(MapOutside(StripDoiPrefix(doi), AlnumChars, "_"), DoiSuffixLen)

\* generate_citation_key(fields, entry_type)
generate_citation_key(fields, entry_type) ==
    LET author == Get(fields, AuthorWord, <<>>)
        found  == get_first_author_lastname(author)
        last_name == IF found = <<>> THEN UnknownName ELSE found
        year   == Get(fields, YearWord, <<"X","X","X","X">>)
        doi    == Get(fields, DoiWord, <<>>)
        title  == Get(fields, TitleWord, <<>>)
        doi_suffix ==
            IF doi # <<>>
            THEN DoiSuffix(doi)
            ELSE FirstChars(KeepChars(title, AlnumChars), TitleSuffixLen)
    IN  last_name \o <<"_">> \o year \o <<"_">> \o doi_suffix

-----------------------------------------------------------------------------
(* clean_publications_v5.py: the serializer.                               *)

field_order ==
    << AuthorWord, TitleWord,
       <<"j","o","u","r","n","a","l">>, <<"b","o","o","k","t","i","t","l","e">>,
       <<"v","o","l","u","m","e">>, <<"n","u","m","b","e","r">>,
       <<"p","a","g","e","s">>, YearWord, <<"m","o","n","t","h">>,
       <<"p","u","b","l","i","s","h","e","r">>, DoiWord, <<"u","r","l">>,
       <<"i","s","s","n">>, <<"i","s","b","n">>, <<"e","d","i","t","o","r">> >>

skip_fields ==
    { <<"k","e","y","w","o","r","d","s">>, <<"c","o","p","y","r","i","g","h","t">>,
      <<"l","a","n","g","u","a","g","e">> }

\* re.sub(r'</?scp>', '', value)
StripScp(value) ==
    Replace(Replace(value, <<"<","s","c","p",">">>, <<>>),
            <<"<","/","s","c","p",">">>, <<>>)

\* value.replace('&amp;', '&') followed by the scp substitution
CleanValue(value) == StripScp(Replace(value, <<"&","a","m","p",";">>, <<"&">>))

\* the line format_entry appends for one field
FieldLine(field, value) ==
    <<" "," ">> \o field \o <<" ","=", " ","{">> \o CleanValue(value) \o <<"}",",">>

\* the first loop of format_entry: the fields of field_order that are present
RECURSIVE OrderedLines(_, _)
OrderedLines(fields, order) ==
    IF order = <<>> THEN <<>>
    ELSE (IF HasKey(fields, Head(order))
          THEN <<FieldLine(Head(order), Get(fields, Head(order), <<>>))>>
          ELSE <<>>) \o OrderedLines(fields, Tail(order))

\* the second loop of format_entry: the other fields, in dict order
RECURSIVE RemainingLines(_, _)
RemainingLines(fields, rest) ==
    IF rest = <<>> THEN <<>>
    ELSE LET f == Head(rest)
             added == \E i \in 1..Len(field_order) : field_order[i] = f.name
         IN  (IF ~added /\ f.name \notin skip_fields
              THEN <<FieldLine(f.name, f.value)>> ELSE <<>>)
             \o RemainingLines(fields, Tail(rest))

\* '\n'.join(lines)
RECURSIVE JoinLines(_)
JoinLines(lines) ==
    IF lines = <<>> THEN <<>>
    ELSE IF Len(lines) = 1 THEN lines[1]
         ELSE lines[1] \o <<"\n">> \o JoinLines(Tail(lines))

\* chr(96 + n): a, b, c, ... and the ASCII characters after z
AfterZ == <<"{", "|", "}", "~">>
Chr96(n) == IF n <= Len(LowerSeq) THEN LowerSeq[n] ELSE AfterZ[n - Len(LowerSeq)]

\* the key format_entry assigns: its 'Ensure uniqueness' branch
AssignKey(base_key, counts) ==
    IF HasKey(counts, base_key)
    THEN LET n == Get(counts, base_key, 0) + 1
         IN  [key |-> base_key \o <<"_", Chr96(n)>>, key_counts |-> Put(counts, base_key, n)]
    ELSE [key |-> base_key, key_counts |-> Put(counts, base_key, 0)]

\* 'Remove trailing comma from last field': the last line loses a final comma
TrimLastComma(lines) ==
    LET n == Len(lines)
    IN  IF lines[n][Len(lines[n])] = ","
        THEN [lines EXCEPT ![n] = SubSeq(@, 1, Len(@) - 1)]
        ELSE lines

\* the lines of the entry: the header with the key, the ordered fields, the others
EntryLines(entry, fields, key) ==
    <<(<<"@">> \o entry.type \o <<"{">> \o key \o <<",">>)>>
    \o OrderedLines(fields, field_order)
    \o RemainingLines(fields, fields)

\* the rendered text of the entry under the key k.key
FormatKeyed(entry, fields, base_key, k) ==
    [text |-> JoinLines(Append(TrimLastComma(EntryLines(entry, fields, k.key)), <<"}">>)),
     key |-> k.key, base_key |-> base_key, key_counts |-> k.key_counts]

\* format_entry after parse_fields: base key, unique key, rendering
FormatFields(entry, fields, base_key, counts) ==
    FormatKeyed(entry, fields, base_key, AssignKey(base_key, counts))

FormatParsed(entry, fields, counts) ==
    FormatFields(entry, fields, generate_citation_key(fields, entry.type), counts)

\* format_entry(entry, key_counts): the rendered text, the key written in it and
\* the registry after the call
format_entry(entry, counts) == FormatParsed(entry, parse_fields(entry.fields_str), counts)

-----------------------------------------------------------------------------
(* clean_publications_v5.py: the record extractor.                         *)

\* re.sub(r'<head>.*?</head>', '', content, flags=DOTALL | IGNORECASE)
RECURSIVE StripHead(_)
StripHead(s) ==
    LET open  == <<"<","h","e","a","d",">">>
        close == <<"<","/","h","e","a","d",">">>
        a == Find(Lower(s), open, 1)
        b == IF a = 0 THEN 0 ELSE Find(Lower(s), close, a + Len(open))
    IN  IF a = 0 \/ b = 0 THEN s
        ELSE SubSeq(s, 1, a - 1) \o StripHead(From(s, b + Len(close)))

\* re.sub(r'<[^>]+>', '', content)
RECURSIVE StripTags(_)
StripTags(s) ==
    LET hits == {i \in 1..Len(s) :
                    /\ s[i] = "<"
                    /\ Find(s, <<">">>, i + 1) > i + 1}
    IN  IF hits = {} THEN s
        ELSE LET i == CHOOSE h \in hits : \A j \in hits : h <= j
                 g == Find(s, <<">">>, i + 1)
             IN  SubSeq(s, 1, i - 1) \o StripTags(From(s, g + 1))

\* a match of r'^\s*,\s*$' (MULTILINE) that starts at position i: the position
\* after the match, 0 when there is none.  s is the whole text.
CommaLineEnd(s, i) ==
    LET w == SkipWhile(s, i, SpaceChars)
        e == SkipWhile(s, w + 1, SpaceChars)
        nl == {q \in (w + 1)..(e - 1) : s[q] = "\n"}
    IN  IF ~(i = 1 \/ (i <= Len(s) + 1 /\ s[i - 1] = "\n")) THEN 0
        ELSE IF w > Len(s) \/ s[w] # "," THEN 0
        ELSE IF e > Len(s) THEN e
        ELSE IF nl = {} THEN 0
        ELSE CHOOSE q \in nl : \A r \in nl : q >= r

\* re.sub(r'^\s*,\s*$', '', content, flags=MULTILINE), scanning from position from
RECURSIVE StripCommaLines(_, _)
StripCommaLines(s, from) ==
    LET hits == {i \in from..Len(s) : CommaLineEnd(s, i) # 0}
    IN  IF hits = {} THEN From(s, from)
        ELSE LET i == CHOOSE h \in hits : \A j \in hits : h <= j
             IN  Slice(s, from, i) \o StripCommaLines(s, CommaLineEnd(s, i))

\* the four clean-up substitutions at the head of extract_entries
StripDebris(content) ==
    LET a == StripTags(StripHead(content))
        b == Replace(a, <<"\n", ",", "\n">>, <<"\n", "\n">>)
    IN  StripCommaLines(b, 1)

\* re.search(r'@(\w+)\s*\{([^,]+),', s) from position from:
\* [found, type, key, end]; end is the position after the match
EntryMatch(s, from) ==
    LET ok(i) == /\ s[i] = "@"
                 /\ i + 1 <= Len(s) /\ IsWord(s[i + 1])
                 /\ LET b == SkipWhile(s, SkipWhile(s, i + 1, WordChars), SpaceChars)
                    IN  /\ b <= Len(s) /\ s[b] = "{"
                        /\ Find(s, <<",">>, b + 1) > b + 1
        hits == {i \in from..Len(s) : ok(i)}
    IN  IF hits = {} THEN [found |-> FALSE, type |-> <<>>, key |-> <<>>, end |-> 0]
        ELSE LET i == CHOOSE h \in hits : \A j \in hits : h <= j
                 w == SkipWhile(s, i + 1, WordChars)
                 b == SkipWhile(s, w, SpaceChars)
                 c == Find(s, <<",">>, b + 1)
             IN  [found |-> TRUE, type |-> Slice(s, i + 1, w),
                  key |-> Slice(s, b + 1, c), end |-> c + 1]

\* re.search(r'\n@\w+\s*\{', s[from:]): the position of the match, 0 when none
NextEntryStart(s, from) ==
    LET ok(i) == /\ s[i] = "\n"
                 /\ i + 2 <= Len(s) /\ s[i + 1] = "@" /\ IsWord(s[i + 2])
                 /\ LET b == SkipWhile(s, SkipWhile(s, i + 2, WordChars), SpaceChars)
                    IN  b <= Len(s) /\ s[b] = "{"
        hits == {i \in from..Len(s) : ok(i)}
    IN  IF hits = {} THEN 0 ELSE CHOOSE h \in hits : \A j \in hits : h <= j

\* the loop over re.finditer in extract_entries, from position from
RECURSIVE EntryLoop(_, _)
EntryLoop(s, from) ==
    LET m == EntryMatch(s, from)
        key == Strip(m.key)
        skip == \/ key = <<>>
                \/ key[1] = "<"
                \/ Contains(Lower(key), <<"h","t","t","p","-","e","q","u","i","v">>)
        next_entry == NextEntryStart(s, m.end)
        end_pos == IF next_entry # 0 THEN next_entry ELSE Len(s) + 1
        fields_str == RStripChar(RStripChar(Strip(Slice(s, m.end, end_pos)), "}"), ",")
    IN  IF ~m.found THEN <<>>
        ELSE (IF skip THEN <<>>
              ELSE <<[type |-> Lower(m.type), original_key |-> key,
                      fields_str |-> fields_str]>>)
             \o EntryLoop(s, m.end)

\* extract_entries(content)
extract_entries(content) == EntryLoop(StripDebris(content), 1)

-----------------------------------------------------------------------------
(* clean_publications_v5.py: deduplicate_by_doi.                           *)

\* the DOI normalization of deduplicate_by_doi:
\* fields.get('doi', '').lower().strip(), then the resolver prefix is removed
NormalizeDoi(doi) == StripDoiPrefix(Strip(Lower(doi)))

\* the title key of deduplicate_by_doi: re.sub(r'[^a-z0-9]', '', title.lower())
NormalizeTitleKey(title) == KeepChars(Lower(title), LowerChars \cup DigitChars)

\* list.index(x): the first position holding a value equal to x
IndexOfMutant(list, x) == 1
IndexOf(list, x) == CHOOSE i \in 1..Len(list) : list[i] = x /\ \A j \in 1..(i - 1) : list[j] # x

\* 'if len(fields) > len(existing_fields)': the better entry replaces the kept one
ReplacesFieldsMutant(fields, existing_fields) == Len(fields) >= Len(existing_fields)
ReplacesExisting(fields, existing_fields) == Len(fields) > Len(existing_fields)

\* 'elif not title_normalized': an entry without DOI and without title is included
IncludesUntitledMutant(title_normalized) == FALSE
IncludesUntitled(title_normalized) == title_normalized = <<>>

\* the DOI branch for an entry whose normalized DOI was seen: the entry replaces
\* the kept one when it has more fields
DedupSeenDoi(entry, i, st, fields, doi, existing) ==
    IF ReplacesExisting(fields, parse_fields(existing.fields_str))
    THEN LET at == IndexOf(st.unique_entries, existing)
         IN  [st EXCEPT !.seen_dois = Put(@, doi, entry),
                        !.unique_entries[at] = entry,
                        !.kept_idx[at] = i]
    ELSE st

\* the branches of the loop body, given the parsed fields, the normalized DOI and
\* the normalized title
DedupBranches(entry, i, st, fields, doi, title_normalized) ==
    IF doi # <<>>
    THEN IF ~HasKey(st.seen_dois, doi)
         THEN [st EXCEPT !.seen_dois = Put(@, doi, entry),
                         !.unique_entries = Append(@, entry),
                         !.kept_idx = Append(@, i)]
         ELSE DedupSeenDoi(entry, i, st, fields, doi, Get(st.seen_dois, doi, <<>>))
    ELSE IF title_normalized # <<>> /\ title_normalized \notin st.seen_titles
         THEN [st EXCEPT !.seen_titles = @ \cup {title_normalized},
                         !.unique_entries = Append(@, entry),
                         !.kept_idx = Append(@, i)]
         ELSE IF IncludesUntitled(title_normalized)
              THEN [st EXCEPT !.unique_entries = Append(@, entry),
                              !.kept_idx = Append(@, i)]
              ELSE st

DedupParsed(entry, i, st, fields) ==
    DedupBranches(entry, i, st, fields,
                  NormalizeDoi(Get(fields, DoiWord, <<>>)),
                  NormalizeTitleKey(Get(fields, TitleWord, <<>>)))

\* the body of the for loop of deduplicate_by_doi for the entry at input position i;
\* st = [seen_dois, seen_titles, unique_entries, kept_idx]
DedupIteration(entry, i, st) == DedupParsed(entry, i, st, parse_fields(entry.fields_str))

-----------------------------------------------------------------------------
(* The title normalizers.                                                  *)

\* audit_publications.normalize_title
AuditNormalizeTitleMutant(title) ==
    LET a == DropChars(title, {"{", "}"})
        b == JoinSpace(SplitWords(Lower(a)))
    IN  KeepChars(b, WordChars \cup SpaceChars)
AuditNormalizeTitle(title) ==
    LET a == DropChars(title, {"{", "}"})
        b == Lower(a)
        c == KeepChars(b, WordChars \cup SpaceChars)
    IN  JoinSpace(SplitWords(c))

\* re.sub(r'\\[a-zA-Z]+\{([^}]*)\}', r'\1', s): a command with a brace group
\* becomes the text of the group
RECURSIVE UnwrapCommands(_)
UnwrapCommands(s) ==
    LET ok(i) == /\ s[i] = "\\"
                 /\ i + 1 <= Len(s) /\ s[i + 1] \in AlphaChars
                 /\ LET w == SkipWhile(s, i + 1, AlphaChars)
                    IN  w <= Len(s) /\ s[w] = "{" /\ Find(s, <<"}">>, w + 1) # 0
        hits == {i \in 1..Len(s) : ok(i)}
    IN  IF hits = {} THEN s
        ELSE LET i == CHOOSE h \in hits : \A j \in hits : h <= j
                 w == SkipWhile(s, i + 1, AlphaChars)
                 g == Find(s, <<"}">>, w + 1)
             IN  SubSeq(s, 1, i - 1) \o Slice(s, w + 1, g) \o UnwrapCommands(From(s, g + 1))

\* re.sub(r'\\[a-zA-Z]+', '', s): a backslash and the letters after it are removed
RECURSIVE DropCommands(_)
DropCommands(s) ==
    IF s = <<>> THEN <<>>
    ELSE IF s[1] = "\\" /\ Len(s) >= 2 /\ s[2] \in AlphaChars
         THEN DropCommands(From(s, SkipWhile(s, 2, AlphaChars)))
         ELSE <<s[1]>> \o DropCommands(Tail(s))

\* merge_pdfs_v3.normalize_title
MergeNormalizeTitle(title) ==
    IF title = <<>> THEN <<>>
    ELSE LET a == DropCommands(UnwrapCommands(title))
             b == DropChars(a, {"{", "}", "\\"})
             c == MapOutside(b, AlnumChars \cup SpaceChars, " ")
             d == CollapseSpace(c)
         IN  Strip(Lower(d))

\* count_publications.normalise_title (unicodedata.normalize leaves ASCII text as it is)
CountNormaliseTitle(title) ==
    LET a == DropCommands(UnwrapCommands(title))
        b == DropChars(a, {"{", "}", "\"", "'"})
        c == Lower(b)
        d == KeepChars(c, LowerChars \cup DigitChars \cup SpaceChars)
    IN  Strip(CollapseSpace(d))

-----------------------------------------------------------------------------
(* merge_pdfs_v3.py: the word-overlap scorer.                              *)

stopwords ==
    { <<"t","h","e">>, <<"a">>, <<"a","n">>, <<"o","f">>, <<"i","n">>, <<"o","n">>,
      <<"f","o","r">>, <<"t","o">>, <<"a","n","d">>, <<"w","i","t","h">>, <<"b","y">>,
      <<"f","r","o","m">>, <<"a","t">>, <<"a","s">>, <<"i","s">>, <<"a","r","e">>,
      <<"w","a","s">>, <<"w","e","r","e">> }

\* get_title_words(title), as the set titles_match makes of it
TitleWordSet(title) ==
    LET words == SplitWords(MergeNormalizeTitle(title))
    IN  {words[i] : i \in {k \in 1..Len(words) :
                              words[k] \notin stopwords /\ Len(words[k]) > 2}}

MinMutant(x, y) == IF x <= y THEN y ELSE x
Min(x, y) == IF x <= y THEN x ELSE y

MinSignificantWords == 3

\* min_len = min(len(words1), len(words2))
MinLenMutant(words1, words2) == Cardinality(words1)
MinLen(words1, words2) == Min(Cardinality(words1), Cardinality(words2))

\* titles_match(title1, title2, threshold); the threshold is the fraction
\* threshold[1] / threshold[2], and overlap / min_len >= threshold is compared
\* in integers
titles_match(title1, title2, threshold) ==
    LET words1  == TitleWordSet(title1)
        words2  == TitleWordSet(title2)
        overlap == Cardinality(words1 \cap words2)
        min_len == MinLen(words1, words2)
    IN  IF words1 = {} \/ words2 = {} THEN FALSE
        ELSE IF min_len < MinSignificantWords THEN FALSE
        ELSE overlap * threshold[2] >= threshold[1] * min_len

-----------------------------------------------------------------------------
(* difflib.SequenceMatcher(None, a, b).ratio(), for texts of fewer than 200 *)
(* characters (the library's automatic junk heuristic starts at 200).      *)

\* the length of the longest common run of a from i and b from j, inside a[..ahi], b[..bhi]
RECURSIVE CommonRun(_, _, _, _, _, _)
CommonRun(a, b, i, j, ahi, bhi) ==
    IF i > ahi \/ j > bhi \/ a[i] # b[j] THEN 0
    ELSE 1 + CommonRun(a, b, i + 1, j + 1, ahi, bhi)

\* find_longest_match(alo, ahi, blo, bhi) on the inclusive ranges a[alo..ahi],
\* b[blo..bhi]: the longest block; of those the one that starts earliest in a; of
\* those the one that starts earliest in b
find_longest_match(a, b, alo, ahi, blo, bhi) ==
    LET size(i, j) == CommonRun(a, b, i, j, ahi, bhi)
        cells == (alo..ahi) \X (blo..bhi)
        best  == CHOOSE c \in cells :
                    \A d \in cells :
                        \/ size(c[1], c[2]) > size(d[1], d[2])
                        \/ /\ size(c[1], c[2]) = size(d[1], d[2])
                           /\ (c[1] < d[1] \/ (c[1] = d[1] /\ c[2] <= d[2]))
    IN  [i |-> best[1], j |-> best[2], size |-> size(best[1], best[2])]

\* the total size of get_matching_blocks(): the longest block, then the same on
\* the text to its left and on the text to its right
RECURSIVE MatchingSize(_, _, _, _, _, _)
MatchingSize(a, b, alo, ahi, blo, bhi) ==
    IF alo > ahi \/ blo > bhi THEN 0
    ELSE LET m == find_longest_match(a, b, alo, ahi, blo, bhi)
         IN  IF m.size = 0 THEN 0
             ELSE m.size
                  + MatchingSize(a, b, alo, m.i - 1, blo, m.j - 1)
                  + MatchingSize(a, b, m.i + m.size, ahi, m.j + m.size, bhi)

\* ratio() >= threshold, with ratio() = 2.0 * matches / (len(a) + len(b)) and 1.0
\* for two empty texts; the threshold is the fraction threshold[1] / threshold[2]
RatioAtLeast(a, b, threshold) ==
    LET matches == MatchingSize(a, b, 1, Len(a), 1, Len(b))
        length  == Len(a) + Len(b)
    IN  IF length = 0 THEN threshold[1] <= threshold[2]
        ELSE 2 * matches * threshold[2] >= threshold[1] * length

AuditThreshold   == <<85, 100>>
MissingThreshold == <<75, 100>>

\* audit_publications.similar(a, b) with its default threshold
AuditSimilar(a, b) == RatioAtLeast(a, b, AuditThreshold)

\* find_missing.similar(a, b) with its default threshold
MissingSimilar(a, b) == RatioAtLeast(a, b, MissingThreshold)

-----------------------------------------------------------------------------
(* audit_publications.py: find_duplicates.  An entry of the parsed file is *)
(* [ID, doi, title]; a missing doi or title is the empty text, as          *)
(* e.get(name, '') makes it.                                               *)

TitleShown == 60

\* the grouping key of the 'Group by DOI' loop: e.get('doi', '').lower().strip()
AuditDoiKey(e) == Strip(Lower(e.doi))

\* the keys of by_doi, in insertion order
RECURSIVE ByDoiKeys(_, _)
ByDoiKeys(list, seen) ==
    IF list = <<>> THEN <<>>
    ELSE LET doi == AuditDoiKey(Head(list))
         IN  IF doi = <<>> \/ doi \in seen THEN ByDoiKeys(Tail(list), seen)
             ELSE <<doi>> \o ByDoiKeys(Tail(list), seen \cup {doi})

\* by_doi[doi]: the entries of that key, in input order
RECURSIVE DoiGroup(_, _)
DoiGroup(list, doi) ==
    IF list = <<>> THEN <<>>
    ELSE (IF AuditDoiKey(Head(list)) = doi THEN <<Head(list)>> ELSE <<>>)
         \o DoiGroup(Tail(list), doi)

\* the same_doi records, one for every key with more than one entry
RECURSIVE SameDoiRecords(_, _)
SameDoiRecords(list, keys) ==
    IF keys = <<>> THEN <<>>
    ELSE LET group == DoiGroup(list, Head(keys))
         IN  (IF Len(group) > 1
              THEN <<[type |-> "same_doi", doi |-> Head(keys),
                      entries |-> [k \in 1..Len(group) |->
                                     <<group[k].ID, FirstChars(group[k].title, TitleShown)>>]]>>
              ELSE <<>>)
             \o SameDoiRecords(list, Tail(keys))

\* 'osf.io' in doi or 'psyarxiv' in doi or '31234' in doi
PreprintMarker(doi) ==
    \/ Contains(doi, <<"o","s","f",".","i","o">>)
    \/ Contains(doi, <<"p","s","y","a","r","x","i","v">>)
    \/ Contains(doi, <<"3","1","2","3","4">>)

\* the record appended for the pair (i, j) of the similar-title loops, if any
PairRecord(list, i, j) ==
    LET e1 == list[i]
        e2 == list[j]
        is_preprint_pair == PreprintMarker(Lower(e1.doi)) # PreprintMarker(Lower(e2.doi))
    IN  IF AuditSimilar(AuditNormalizeTitle(e1.title), AuditNormalizeTitle(e2.title))
        THEN <<[type |-> IF is_preprint_pair THEN "preprint_published" ELSE "similar_title",
                entries |-> << <<e1.ID, FirstChars(e1.title, TitleShown), e1.doi>>,
                               <<e2.ID, FirstChars(e2.title, TitleShown), e2.doi>> >>]>>
        ELSE <<>>

\* the two nested loops over titles, from the pair (i, j) on
RECURSIVE PairRecords(_, _, _)
PairRecords(list, i, j) ==
    IF i > Len(list) THEN <<>>
    ELSE IF j > Len(list) THEN PairRecords(list, i + 1, i + 2)
    ELSE PairRecord(list, i, j) \o PairRecords(list, i, j + 1)

\* find_duplicates(entries)
find_duplicates(list) ==
    SameDoiRecords(list, ByDoiKeys(list, {})) \o PairRecords(list, 1, 2)

-----------------------------------------------------------------------------
(* Input texts.                                                            *)

Sep == <<",", "\n">>

\* name = {value}
Braced(name, value) == name \o <<" ", "=", " ", "{">> \o value \o <<"}">>
\* name = "value"
Quoted(name, value) == name \o <<" ", "=", " ", "\"">> \o value \o <<"\"">>
\* name = digits
Bare(name, value) == name \o <<" ", "=", " ">> \o value

HttpsDoiOrg  == <<"h","t","t","p","s",":","/","/","d","o","i",".","o","r","g","/">>
HttpDxDoiOrg == <<"h","t","t","p",":","/","/","d","x",".","d","o","i",".","o","r","g","/">>
Y2020   == <<"2","0","2","0">>
Article == <<"a","r","t","i","c","l","e">>

Entry(key, fields_str) == [type |-> Article, original_key |-> key, fields_str |-> fields_str]

\* all sequences of at most n elements of S
SeqsUpTo(S, n) == UNION {[1..k -> S] : k \in 0..n}

IdleDedup ==
    /\ entries = <<>> /\ idx = 0 /\ seen_dois = <<>> /\ seen_titles = {}
    /\ unique_entries = <<>> /\ kept_idx = <<>>
IdleFormat == key_counts = <<>> /\ formatted_entries = <<>> /\ written_keys = <<>>
IdleCall   == op = "none" /\ arg = <<>> /\ res = <<>>

-----------------------------------------------------------------------------
(* deduplicate_by_doi as a loop: one step per entry of the argument.       *)

MaxEntries == 3

DedupPool ==
    { Entry(<<"d","1">>, Braced(DoiWord, <<"1","0",".","1","/","x">>)),
      Entry(<<"d","2">>, Braced(DoiWord, HttpsDoiOrg \o <<"1","0",".","1","/","X">>)
                         \o Sep \o Bare(YearWord, Y2020)),
      Entry(<<"d","3">>, Braced(YearWord, Y2020) \o Sep
                         \o Braced(DoiWord, <<" ","1","0",".","1","/","x"," ">>)),
      Entry(<<"d","4">>, Braced(DoiWord, <<"1","0",".","1","/","y">>) \o Sep
                         \o Braced(TitleWord, <<"A"," ","b">>)),
      Entry(<<"t","1">>, Braced(TitleWord, <<"A"," ","b">>)),
      Entry(<<"t","2">>, Braced(TitleWord, <<"a","-","B">>) \o Sep \o Bare(YearWord, Y2020)),
      Entry(<<"n","1">>, Bare(YearWord, Y2020)) }

InitDedup ==
    /\ entries \in SeqsUpTo(DedupPool, MaxEntries)
    /\ idx = 0
    /\ seen_dois = <<>>
    /\ seen_titles = {}
    /\ unique_entries = <<>>
    /\ kept_idx = <<>>
    /\ IdleFormat
    /\ IdleCall

\* one iteration of 'for entry in entries'
DedupStep ==
    /\ idx < Len(entries)
    /\ \E st \in {DedupIteration(entries[idx + 1], idx + 1,
                     [seen_dois |-> seen_dois, seen_titles |-> seen_titles,
                      unique_entries |-> unique_entries, kept_idx |-> kept_idx])} :
          /\ seen_dois' = st.seen_dois
          /\ seen_titles' = st.seen_titles
          /\ unique_entries' = st.unique_entries
          /\ kept_idx' = st.kept_idx
    /\ idx' = idx + 1
    /\ UNCHANGED <<entries, formatVars, callVars>>

NextDedup == DedupStep

SpecDedup == InitDedup /\ [][NextDedup]_vars

\* the input positions consumed so far, and those whose entry is in unique_entries
Consumed == 1..idx
Kept     == {kept_idx[k] : k \in 1..Len(kept_idx)}

\* per input position: the parsed fields and, from them, the normalized DOI, the
\* title key and the number of fields (the formulas bind these to variables, so
\* that each is computed once a state)
ParsedAt == [i \in 1..Len(entries) |-> parse_fields(entries[i].fields_str)]
DoiIn(parsed)    == [i \in DOMAIN parsed |-> NormalizeDoi(Get(parsed[i], DoiWord, <<>>))]
TitleIn(parsed)  == [i \in DOMAIN parsed |-> NormalizeTitleKey(Get(parsed[i], TitleWord, <<>>))]
FieldsIn(parsed) == [i \in DOMAIN parsed |-> Len(parsed[i])]

\* the first position of the group with the largest number of parsed fields
FirstLargest(group, count) ==
    CHOOSE i \in group :
        /\ \A j \in group : count[i] >= count[j]
        /\ \A j \in group : count[j] = count[i] => i <= j

\* kept_idx names where each element of unique_entries came from
KeptIdxTracks ==
    /\ Len(kept_idx) = Len(unique_entries)
    /\ \A k \in 1..Len(kept_idx) :
          kept_idx[k] \in Consumed /\ unique_entries[k] = entries[kept_idx[k]]
    /\ \A k, l \in 1..Len(kept_idx) : kept_idx[k] = kept_idx[l] => k = l

\* C2: among the consumed entries of one non-empty normalized DOI, exactly one is
\* in unique_entries, and it is the first of those with the most parsed fields.
C2_KeepsFirstLargest ==
    \A parsed \in {ParsedAt} : \A doi \in {DoiIn(parsed)}, count \in {FieldsIn(parsed)} :
        /\ KeptIdxTracks
        /\ \A i \in Consumed :
              LET group == {j \in Consumed : doi[j] = doi[i]}
              IN  doi[i] # <<>> =>
                    /\ Cardinality({k \in 1..Len(kept_idx) : doi[kept_idx[k]] = doi[i]}) = 1
                    /\ group \cap Kept = {FirstLargest(group, count)}

\* C2 witness: the loop has ended on three entries of one DOI; the second, with more
\* fields, replaced the first, and the third, with as many fields as the second, was
\* dropped.
C2_Witness ==
    \E parsed \in {ParsedAt} : \E doi \in {DoiIn(parsed)}, count \in {FieldsIn(parsed)} :
        /\ idx = Len(entries) /\ idx = 3
        /\ doi[1] # <<>> /\ doi[2] = doi[1] /\ doi[3] = doi[1]
        /\ count[1] < count[2] /\ count[2] = count[3]
        /\ entries[2] # entries[3]
        /\ Kept = {2}

\* C3: a consumed entry is missing from unique_entries only if its non-empty
\* normalized DOI is that of a kept entry, or it has no DOI and its non-empty
\* normalized title is that of an earlier kept entry without DOI; an entry with
\* neither is kept.
C3_DropsOnlyCollisions ==
    \A parsed \in {ParsedAt} : \A doi \in {DoiIn(parsed)}, title \in {TitleIn(parsed)} :
        /\ KeptIdxTracks
        /\ \A i \in Consumed \ Kept :
              \/ doi[i] # <<>> /\ \E j \in Kept : doi[j] = doi[i]
              \/ /\ doi[i] = <<>> /\ title[i] # <<>>
                 /\ \E j \in Kept : j < i /\ doi[j] = <<>> /\ title[j] = title[i]
        /\ \A i \in Consumed : (doi[i] = <<>> /\ title[i] = <<>>) => i \in Kept

\* C3 witness: the loop has ended having dropped an entry without DOI for its title
\* and having kept an entry with neither DOI nor title.
C3_Witness ==
    \E parsed \in {ParsedAt} : \E doi \in {DoiIn(parsed)}, title \in {TitleIn(parsed)} :
        /\ idx = Len(entries)
        /\ \E i \in Consumed \ Kept : doi[i] = <<>> /\ title[i] # <<>>
        /\ \E i \in Kept : doi[i] = <<>> /\ title[i] = <<>>

-----------------------------------------------------------------------------
(* The format loop of main: format_entry on one entry after another, with  *)
(* one key registry.                                                       *)

MaxFormatted == 3

SmithAuthor == <<"S","m","i","t","h",","," ","J",".">>
SmithDoe    == SmithAuthor \o <<" ","a","n","d"," ","D","o","e",","," ","A",".">>
SmithBody(doi) ==
    Braced(AuthorWord, SmithAuthor) \o Sep \o Braced(YearWord, Y2020) \o Sep
    \o Braced(DoiWord, doi)

FormatPool ==
    { Entry(<<"k","1">>, SmithBody(<<"1","0",".","1","/","x">>)),
      Entry(<<"k","2">>, SmithBody(<<"1","0",".","1","-","x">>)),
      Entry(<<"k","3">>, SmithBody(<<"1","0",".","1","/","x","/","a">>)),
      Entry(<<"k","4">>, Braced(AuthorWord, SmithDoe) \o Sep \o Braced(YearWord, Y2020)
                         \o Sep \o Braced(DoiWord, <<"1","0",".","1","2","3","4","/","x","y">>)),
      Entry(<<"k","5">>, Braced(TitleWord, <<"A"," ","b">>)) }

InitFormat ==
    /\ key_counts = <<>>
    /\ formatted_entries = <<>>
    /\ written_keys = <<>>
    /\ IdleDedup
    /\ IdleCall

\* one iteration of 'for entry in unique_entries' in main
FormatEntry ==
    /\ Len(formatted_entries) < MaxFormatted
    /\ \E entry \in FormatPool :
          \E r \in {format_entry(entry, key_counts)} :
              /\ key_counts' = r.key_counts
              /\ formatted_entries' = Append(formatted_entries, r.text)
              /\ written_keys' = Append(written_keys, r.key)
    /\ UNCHANGED <<dedupVars, callVars>>

NextFormat == FormatEntry

SpecFormat == InitFormat /\ [][NextFormat]_vars

\* C1: the citation keys written by the format_entry calls made so far with the one
\* registry are pairwise distinct.
C1_KeysDistinct ==
    \A i, j \in 1..Len(written_keys) : i # j => written_keys[i] # written_keys[j]

-----------------------------------------------------------------------------
(* Round trip: a record body is rendered by format_entry, and the rendered *)
(* text is read again by extract_entries and parse_fields.                 *)

MaxFields == 2

NoteWord     == <<"n","o","t","e">>
JournalWord  == <<"j","o","u","r","n","a","l">>
KeywordsWord == <<"k","e","y","w","o","r","d","s">>

RoundTripFields ==
    { Braced(TitleWord, <<"A"," ","b">>),
      Bare(YearWord, Y2020),
      Quoted(NoteWord, <<"a","}","b">>),
      Braced(JournalWord, <<"A"," ","&","a","m","p",";"," ","B">>),
      Braced(KeywordsWord, <<"k">>),
      Braced(AuthorWord, SmithAuthor),
      Braced(<<"z","z">>, <<"q"," ","{","n","}"," ","r">>) }

\* the record bodies made of the field texts fs, separated by Sep
RECURSIVE JoinFields(_)
JoinFields(fs) ==
    IF fs = <<>> THEN <<>>
    ELSE IF Len(fs) = 1 THEN fs[1]
         ELSE fs[1] \o Sep \o JoinFields(Tail(fs))

InitRoundTrip ==
    /\ op = "round_trip"
    /\ arg \in {JoinFields(fs) : fs \in SeqsUpTo(RoundTripFields, MaxFields)}
    /\ res = <<>>
    /\ IdleDedup
    /\ IdleFormat

\* parse_fields on the body
RoundTripParse ==
    /\ op = "round_trip" /\ Len(res) = 0
    /\ res' = <<parse_fields(arg)>>
    /\ UNCHANGED <<op, arg, dedupVars, formatVars>>

\* format_entry on the record, with an empty registry
RoundTripFormat ==
    /\ op = "round_trip" /\ Len(res) = 1
    /\ res' = Append(res, format_entry(Entry(<<"k">>, arg), <<>>).text)
    /\ UNCHANGED <<op, arg, dedupVars, formatVars>>

\* parse_fields on every record of a list
ParseAll(records) == [k \in 1..Len(records) |-> parse_fields(records[k].fields_str)]

\* extract_entries on the rendered text, and parse_fields on every record it returns
RoundTripReRead ==
    /\ op = "round_trip" /\ Len(res) = 2
    /\ res' = Append(res, ParseAll(extract_entries(res[2])))
    /\ UNCHANGED <<op, arg, dedupVars, formatVars>>

NextRoundTrip == RoundTripParse \/ RoundTripFormat \/ RoundTripReRead

SpecRoundTrip == InitRoundTrip /\ [][NextRoundTrip]_vars

\* a dict as a set of (name, value) pairs
Pairs(d) == {<<d[i].name, d[i].value>> : i \in 1..Len(d)}

\* C4: the rendered text reads back as one record whose field mapping is the
\* mapping that was rendered, minus the fields keywords, copyright and language.
C4_RoundTrip ==
    (op = "round_trip" /\ Len(res) = 3) =>
        /\ Len(res[3]) = 1
        /\ Pairs(res[3][1]) = {p \in Pairs(res[1]) : p[1] \notin skip_fields}

-----------------------------------------------------------------------------
(* The DOI normalization of deduplicate_by_doi, applied to its own result. *)

MaxDoiParts == 3

DoiParts ==
    { HttpsDoiOrg, HttpDxDoiOrg, <<" ">>, <<"1","0",".","1","/","X">> }

RECURSIVE Concat(_)
Concat(parts) == IF parts = <<>> THEN <<>> ELSE Head(parts) \o Concat(Tail(parts))

InitDoi ==
    /\ op = "normalize_doi"
    /\ arg \in {Concat(ps) : ps \in SeqsUpTo(DoiParts, MaxDoiParts)}
    /\ res = <<>>
    /\ IdleDedup
    /\ IdleFormat

\* the normalization, on the argument and then on its own result
NormalizeDoiCall ==
    /\ op = "normalize_doi" /\ Len(res) < 2
    /\ res' = Append(res, NormalizeDoi(IF res = <<>> THEN arg ELSE res[Len(res)]))
    /\ UNCHANGED <<op, arg, dedupVars, formatVars>>

NextDoi == NormalizeDoiCall

SpecDoi == InitDoi /\ [][NextDoi]_vars

\* C5: normalizing a normalized DOI returns it unchanged.
C5_DoiIdempotent ==
    (op = "normalize_doi" /\ Len(res) = 2) => res[2] = res[1]

-----------------------------------------------------------------------------
(* The three title normalizers, each applied to its own result.            *)

MaxTitleLen == 5

TitleChars == {"a", "B", "\\", "{", "}", "-", " ", "_"}

InitTitle ==
    /\ op \in {"audit_normalize_title", "merge_normalize_title", "count_normalise_title"}
    /\ arg \in SeqsUpTo(TitleChars, MaxTitleLen)
    /\ res = <<>>
    /\ IdleDedup
    /\ IdleFormat

LastOr(results, first) == IF results = <<>> THEN first ELSE results[Len(results)]

AuditNormalizeCall ==
    /\ op = "audit_normalize_title" /\ Len(res) < 2
    /\ res' = Append(res, AuditNormalizeTitle(LastOr(res, arg)))
    /\ UNCHANGED <<op, arg, dedupVars, formatVars>>

MergeNormalizeCall ==
    /\ op = "merge_normalize_title" /\ Len(res) < 2
    /\ res' = Append(res, MergeNormalizeTitle(LastOr(res, arg)))
    /\ UNCHANGED <<op, arg, dedupVars, formatVars>>

CountNormaliseCall ==
    /\ op = "count_normalise_title" /\ Len(res) < 2
    /\ res' = Append(res, CountNormaliseTitle(LastOr(res, arg)))
    /\ UNCHANGED <<op, arg, dedupVars, formatVars>>

NextTitle == AuditNormalizeCall \/ MergeNormalizeCall \/ CountNormaliseCall

SpecTitle == InitTitle /\ [][NextTitle]_vars

\* C6: each of the three title normalizers returns its own result unchanged.
C6_TitleIdempotent ==
    Len(res) = 2 => res[2] = res[1]

\* C6 witness: a normalizer was applied twice to a title it did not leave as it was
\* and did not empty.
C6_Witness ==
    /\ Len(res) = 2
    /\ res[1] # arg /\ res[1] # <<>>
    /\ Contains(arg, <<"\\">>) /\ Contains(arg, <<"B">>)

-----------------------------------------------------------------------------
(* titles_match in both argument orders.                                   *)

MaxTitleWords == 3

TitleTokens ==
    { <<"t","h","e"," ">>, <<"C","a","t"," ">>, <<"d","o","g","-">>,
      <<"\\","e","m","{","s","u","n","}"," ">>, <<"o","w","l"," ">> }

OtherTitles ==
    { <<"T","h","e"," ","c","a","t"," ","a","n","d"," ","t","h","e"," ","d","o","g">>,
      <<"c","a","t"," ","d","o","g"," ","s","u","n"," ","o","w","l">>,
      <<"S","u","n",","," ","o","w","l",":"," ","a"," ","f","o","x">>,
      <<>> }

Thresholds == { <<3, 5>>, <<1, 1>> }

InitWords ==
    /\ op = "titles_match"
    /\ arg \in {<<Concat(ws), other, th>> :
                  ws \in SeqsUpTo(TitleTokens, MaxTitleWords),
                  other \in OtherTitles, th \in Thresholds}
    /\ res = <<>>
    /\ IdleDedup
    /\ IdleFormat

\* titles_match(a, b, t), then titles_match(b, a, t)
TitlesMatchCall ==
    /\ op = "titles_match" /\ Len(res) < 2
    /\ res' = Append(res, IF res = <<>> THEN titles_match(arg[1], arg[2], arg[3])
                          ELSE titles_match(arg[2], arg[1], arg[3]))
    /\ UNCHANGED <<op, arg, dedupVars, formatVars>>

NextWords == TitlesMatchCall

SpecWords == InitWords /\ [][NextWords]_vars

\* C7: titles_match gives the same verdict in both argument orders.
C7_TitlesMatchSymmetric ==
    (op = "titles_match" /\ Len(res) = 2) => res[1] = res[2]

\* C7 witness: both orders were called on two titles with different numbers of
\* significant words, and they match.
C7_Witness ==
    /\ op = "titles_match" /\ Len(res) = 2
    /\ Cardinality(TitleWordSet(arg[1])) # Cardinality(TitleWordSet(arg[2]))
    /\ res[1] = TRUE

\* the number of significant words of a title
SignificantWords(title) == Cardinality(TitleWordSet(title))

\* C14: titles_match returns false in both argument orders whenever one of the two
\* titles has fewer than 3 significant words.
C14_FewWordsNeverMatch ==
    (/\ op = "titles_match"
     /\ \/ SignificantWords(arg[1]) < 3
        \/ SignificantWords(arg[2]) < 3) =>
        \A k \in 1..Len(res) : res[k] = FALSE

\* C14 witness: both orders were called on a title of two significant words and a
\* title of at least three that holds both of them.
C14_Witness ==
    /\ op = "titles_match" /\ Len(res) = 2
    /\ SignificantWords(arg[1]) = 2 /\ SignificantWords(arg[2]) >= 3
    /\ TitleWordSet(arg[1]) \subseteq TitleWordSet(arg[2])

-----------------------------------------------------------------------------
(* similar in both argument orders.                                        *)

MaxSimLen == 5

SimChars == {"a", "b"}

\* two longer texts, past MaxSimLen
LongPairs ==
    { << <<"a","a","a","a","a","b","a">>, <<"a","a","b","a","a","a","b">> >> }

InitSimilar ==
    /\ op \in {"audit_similar", "missing_similar"}
    /\ arg \in (SeqsUpTo(SimChars, MaxSimLen) \X SeqsUpTo(SimChars, MaxSimLen)) \cup LongPairs
    /\ res = <<>>
    /\ IdleDedup
    /\ IdleFormat

\* audit_publications.similar(a, b), then similar(b, a)
AuditSimilarCall ==
    /\ op = "audit_similar" /\ Len(res) < 2
    /\ res' = Append(res, IF res = <<>> THEN AuditSimilar(arg[1], arg[2])
                          ELSE AuditSimilar(arg[2], arg[1]))
    /\ UNCHANGED <<op, arg, dedupVars, formatVars>>

\* find_missing.similar(a, b), then similar(b, a)
MissingSimilarCall ==
    /\ op = "missing_similar" /\ Len(res) < 2
    /\ res' = Append(res, IF res = <<>> THEN MissingSimilar(arg[1], arg[2])
                          ELSE MissingSimilar(arg[2], arg[1]))
    /\ UNCHANGED <<op, arg, dedupVars, formatVars>>

NextSimilar == AuditSimilarCall \/ MissingSimilarCall

SpecSimilar == InitSimilar /\ [][NextSimilar]_vars

\* C8: similar gives the same verdict in both argument orders.
C8_SimilarSymmetric ==
    Len(res) = 2 => res[1] = res[2]

-----------------------------------------------------------------------------
(* find_duplicates on a parsed bibliography.                               *)

MaxAudit == 3

AuditEntry(id, doi, title) == [ID |-> id, doi |-> doi, title |-> title]

WellBeing == <<"W","e","l","l","-","B","e","i","n","g">>

AuditPool ==
    { AuditEntry(<<"a","1">>, <<"1","0",".","1","2","3","4","/","A","B","C">>, WellBeing),
      AuditEntry(<<"a","2">>, HttpsDoiOrg \o <<"1","0",".","1","2","3","4","/","a","b","c">>,
                 <<"O","t","h","e","r">>),
      AuditEntry(<<"a","3">>, <<"1","0",".","1","2","3","4","/","a","b","c">>,
                 <<"W","E","L","L","B","E","I","N","G">>),
      AuditEntry(<<"a","4">>, <<"1","0",".","3","1","2","3","4","/","o","s","f",".","i","o","/","x">>,
                 WellBeing),
      AuditEntry(<<"a","5">>, <<>>, <<>>) }

InitAudit ==
    /\ op = "find_duplicates"
    /\ arg \in SeqsUpTo(AuditPool, MaxAudit)
    /\ res = <<>>
    /\ IdleDedup
    /\ IdleFormat

FindDuplicatesCall ==
    /\ op = "find_duplicates" /\ Len(res) = 0
    /\ res' = <<find_duplicates(arg)>>
    /\ UNCHANGED <<op, arg, dedupVars, formatVars>>

NextAudit == FindDuplicatesCall

SpecAudit == InitAudit /\ [][NextAudit]_vars

\* a DOI without its letter case and without a leading https://doi.org/
DoiCore(doi) ==
    LET low == Lower(doi)
    IN  IF MatchAt(low, 1, HttpsDoiOrg) THEN From(low, Len(HttpsDoiOrg) + 1) ELSE low

\* the record r is a same_doi group that lists both IDs
GroupsTogether(r, id1, id2) ==
    /\ r.type = "same_doi"
    /\ \E k, l \in 1..Len(r.entries) : k # l /\ r.entries[k][1] = id1 /\ r.entries[l][1] = id2

\* C9: two entries whose DOIs differ only in letter case or in a leading
\* https://doi.org/ are reported together in one same_doi group.
C9_CaseAndPrefixVariantsGrouped ==
    (op = "find_duplicates" /\ Len(res) = 1) =>
        \A i, j \in 1..Len(arg) :
            (i < j /\ arg[i].doi # <<>> /\ DoiCore(arg[i].doi) = DoiCore(arg[j].doi)) =>
                \E k \in 1..Len(res[1]) : GroupsTogether(res[1][k], arg[i].ID, arg[j].ID)

-----------------------------------------------------------------------------
(* generate_citation_key on one record.                                    *)

KeyAuthors ==
    { SmithDoe, <<"J","a","n","e"," ","S","m","i","t","h">>,
      <<"M","{","\\","\"","u","}","l","l","e","r",","," ","K",".">>, <<>> }
KeyYears == { Y2020, <<"1","9","9","9">>, <<>> }
KeyDois ==
    { <<"1","0",".","1","2","3","4","/","x","y">>,
      HttpsDoiOrg \o <<"1","0",".","1","2","3","4","/","x","y">>,
      <<"1","0",".","1","2","3","4","/","X","Z">>,
      <<"1","0",".","1","2","3","4","/","a","b","c","d","e","f","g","h","i","j",
        "k","l","m","n","o","p","q","r","s","t","u","v","w","x","y","z">>,
      <<>> }
KeyTitles == { <<"A"," ","S","t","u","d","y",":"," ","o","f"," ","x">>, <<>> }

\* the dict with the fields that are given (an empty text stands for an absent field)
FieldsOf(author, year, doi, title) ==
    (IF author = <<>> THEN <<>> ELSE <<[name |-> AuthorWord, value |-> author]>>)
    \o (IF year = <<>> THEN <<>> ELSE <<[name |-> YearWord, value |-> year]>>)
    \o (IF doi = <<>> THEN <<>> ELSE <<[name |-> DoiWord, value |-> doi]>>)
    \o (IF title = <<>> THEN <<>> ELSE <<[name |-> TitleWord, value |-> title]>>)

InitKey ==
    /\ op = "generate_citation_key"
    /\ arg \in {FieldsOf(a, y, d, ti) :
                  a \in KeyAuthors, y \in KeyYears, d \in KeyDois, ti \in KeyTitles}
    /\ res = <<>>
    /\ IdleDedup
    /\ IdleFormat

GenerateCitationKeyCall ==
    /\ op = "generate_citation_key" /\ Len(res) = 0
    /\ res' = <<generate_citation_key(arg, Article)>>
    /\ UNCHANGED <<op, arg, dedupVars, formatVars>>

NextKey == GenerateCitationKeyCall

SpecKey == InitKey /\ [][NextKey]_vars

\* the record of the scenario: author Smith, J. and Doe, A., year 2020, doi 10.1234/xy
IsSmithRecord(fields) ==
    /\ Get(fields, AuthorWord, <<>>) = SmithDoe
    /\ Get(fields, YearWord, <<>>) = Y2020
    /\ Get(fields, DoiWord, <<>>) = <<"1","0",".","1","2","3","4","/","x","y">>

SmithPrefix == <<"S","m","i","t","h","_","2","0","2","0","_">>

\* C10 as stated: the key of the scenario's record is Smith_2020_ followed by a
\* suffix of 25 characters.
C10_SuffixHas25Chars ==
    (op = "generate_citation_key" /\ Len(res) = 1 /\ IsSmithRecord(arg)) =>
        /\ MatchAt(res[1], 1, SmithPrefix)
        /\ Len(res[1]) - Len(SmithPrefix) = DoiSuffixLen

\* C10 as amended: the key of the scenario's record is Smith_2020_10_1234_xy, the
\* prefix Smith_2020_ followed by the 10 characters derived from the DOI; the
\* suffix of a record with a DOI never has more than 25 characters.
C10_SmithKey ==
    (op = "generate_citation_key" /\ Len(res) = 1) =>
        /\ IsSmithRecord(arg) =>
              res[1] = SmithPrefix \o <<"1","0","_","1","2","3","4","_","x","y">>
        /\ (HasKey(arg, DoiWord) /\ Get(arg, AuthorWord, <<>>) = SmithDoe
            /\ Get(arg, YearWord, <<>>) = Y2020) =>
              /\ MatchAt(res[1], 1, SmithPrefix)
              /\ Len(res[1]) - Len(SmithPrefix) <= DoiSuffixLen

\* C10 witness: the key of the scenario's record has been generated.
C10_Witness ==
    op = "generate_citation_key" /\ Len(res) = 1 /\ IsSmithRecord(arg)

-----------------------------------------------------------------------------
(* generate_citation_key on two records.                                   *)

Doe  == <<"D","o","e",","," ","A",".">>
Y1999 == <<"1","9","9","9">>

PairAuthors == { SmithAuthor, SmithDoe, <<"J","a","n","e"," ","S","m","i","t","h">>, Doe }
PairYears   == { Y2020, Y1999 }
PairDois ==
    { <<"1","0",".","1","/","x">>, <<"1","0",".","1","-","x">>,
      HttpsDoiOrg \o <<"1","0",".","1","/","x">>, <<"1","0",".","1","/","y">> }

PairRecordsPool ==
    { FieldsOf(a, y, d, <<>>) : a \in PairAuthors, y \in PairYears, d \in PairDois }

InitKeyPair ==
    /\ op = "key_pair"
    /\ arg \in PairRecordsPool \X PairRecordsPool
    /\ res = <<>>
    /\ IdleDedup
    /\ IdleFormat

\* generate_citation_key on the first record, then on the second
KeyPairCall ==
    /\ op = "key_pair" /\ Len(res) < 2
    /\ res' = Append(res, generate_citation_key(arg[Len(res) + 1], Article))
    /\ UNCHANGED <<op, arg, dedupVars, formatVars>>

NextKeyPair == KeyPairCall

SpecKeyPair == InitKeyPair /\ [][NextKeyPair]_vars

\* the surname generate_citation_key uses for a record
SurnameOf(fields) == get_first_author_lastname(Get(fields, AuthorWord, <<>>))

\* C11: two records with the same first-author surname and the same year, whose
\* DOIs name different identifiers, get different base keys.
C11_DifferentDoisDifferentKeys ==
    (op = "key_pair" /\ Len(res) = 2) =>
        ((/\ SurnameOf(arg[1]) = SurnameOf(arg[2])
          /\ Get(arg[1], YearWord, <<>>) = Get(arg[2], YearWord, <<>>)
          /\ NormalizeDoi(Get(arg[1], DoiWord, <<>>)) # NormalizeDoi(Get(arg[2], DoiWord, <<>>)))
            => res[1] # res[2])

-----------------------------------------------------------------------------
(* find_duplicates on entries whose titles are case and punctuation        *)
(* variants of one another.                                                *)

VariantPool ==
    { AuditEntry(<<"v","1">>, <<>>, WellBeing),
      AuditEntry(<<"v","2">>, <<>>, <<"W","E","L","L","B","E","I","N","G">>),
      AuditEntry(<<"v","3">>, <<>>, <<"W","e","l","l","_","B","e","i","n","g">>),
      AuditEntry(<<"v","4">>, <<"1","0",".","3","1","2","3","4","/","o","s","f",".","i","o","/","x">>,
                 <<"{","W","e","l","l","-","b","e","i","n","g","}",".">>),
      AuditEntry(<<"v","5">>, <<>>, <<"O","t","h","e","r">>) }

InitVariants ==
    /\ op = "find_duplicates"
    /\ arg \in SeqsUpTo(VariantPool, MaxAudit)
    /\ res = <<>>
    /\ IdleDedup
    /\ IdleFormat

SpecVariants == InitVariants /\ [][NextAudit]_vars

\* a title without its punctuation (the characters that are no letters, digits or
\* whitespace) and without its letter case
CaseAndPunctuationFree(title) == Lower(KeepChars(title, AlnumChars \cup SpaceChars))

\* the record r is a similar-title pair of the two IDs
PairsTogether(r, id1, id2) ==
    /\ r.type \in {"similar_title", "preprint_published"}
    /\ r.entries[1][1] = id1 /\ r.entries[2][1] = id2

\* C12: two entries whose titles differ only in letter case and punctuation have
\* the same normalized title, and find_duplicates reports them as a similar-title
\* pair.
C12_VariantsNormalizeAlikeAndPair ==
    (op = "find_duplicates" /\ Len(res) = 1) =>
        \A i, j \in 1..Len(arg) :
            (i < j /\ CaseAndPunctuationFree(arg[i].title) = CaseAndPunctuationFree(arg[j].title)) =>
                /\ AuditNormalizeTitle(arg[i].title) = AuditNormalizeTitle(arg[j].title)
                /\ \E k \in 1..Len(res[1]) : PairsTogether(res[1][k], arg[i].ID, arg[j].ID)

-----------------------------------------------------------------------------
(* parse_fields on a body of which one field has an unterminated brace     *)
(* group.                                                                  *)

MaxBodyFields == 3

AbstractWord == <<"a","b","s","t","r","a","c","t">>

\* name = {value   (the closing brace is missing)
Unclosed(name, value) == name \o <<" ", "=", " ", "{">> \o value

\* a field of a body: its name, its value, its text, and whether its value is closed
BodyField(name, value, text, closed) ==
    [name |-> name, value |-> value, text |-> text, closed |-> closed]

WellFormedFields ==
    { BodyField(TitleWord, <<"A"," ","b">>, Braced(TitleWord, <<"A"," ","b">>), TRUE),
      BodyField(YearWord, Y2020, Bare(YearWord, Y2020), TRUE),
      BodyField(NoteWord, <<"q">>, Quoted(NoteWord, <<"q">>), TRUE),
      BodyField(JournalWord, <<"J"," ","{","x","}">>, Braced(JournalWord, <<"J"," ","{","x","}">>), TRUE),
      BodyField(AuthorWord, SmithAuthor, Braced(AuthorWord, SmithAuthor), TRUE) }

UnclosedFields ==
    { BodyField(AbstractWord, <<"a"," ","b">>, Unclosed(AbstractWord, <<"a"," ","b">>), FALSE),
      BodyField(AbstractWord, <<"s","e","e"," ">> \o Bare(YearWord, Y1999),
                Unclosed(AbstractWord, <<"s","e","e"," ">> \o Bare(YearWord, Y1999)), FALSE) }

\* the bodies: at most MaxBodyFields fields, at most one of them unclosed
BodyInputs ==
    { fs \in SeqsUpTo(WellFormedFields \cup UnclosedFields, MaxBodyFields) :
        Cardinality({k \in 1..Len(fs) : ~fs[k].closed}) <= 1 }

BodyText(fs) == JoinFields([k \in 1..Len(fs) |-> fs[k].text])

InitBody ==
    /\ op = "parse_fields"
    /\ arg \in BodyInputs
    /\ res = <<>>
    /\ IdleDedup
    /\ IdleFormat

ParseFieldsCall ==
    /\ op = "parse_fields" /\ Len(res) = 0
    /\ res' = <<parse_fields(BodyText(arg))>>
    /\ UNCHANGED <<op, arg, dedupVars, formatVars>>

NextBody == ParseFieldsCall

SpecBody == InitBody /\ [][NextBody]_vars

\* the (name, value) pairs of the closed fields of a body
ClosedPairs(fs) == {<<fs[k].name, fs[k].value>> : k \in {j \in 1..Len(fs) : fs[j].closed}}

HasUnclosed(fs) == \E k \in 1..Len(fs) : ~fs[k].closed

\* C13: when one field of the body has an unterminated brace group, every other
\* field of the body is returned with its value.
C13_OthersReturned ==
    (op = "parse_fields" /\ Len(res) = 1 /\ HasUnclosed(arg)) =>
        ClosedPairs(arg) \subseteq Pairs(res[1])

-----------------------------------------------------------------------------
(* extract_entries on one file text in several whitespace layouts.         *)

\* the whitespace of a layout: after the entry type, after the comma of the key,
\* before the closing brace of an entry, and between two entries
TypeGaps    == { <<>>, <<" ">> }
KeyGaps     == { <<"\n", " ">>, <<" ">> }
CloseGaps   == { <<"\n">>, <<>>, <<" ">> }
BetweenGaps == { <<"\n">>, <<"\n", "\n">>, <<" ">>, <<"\n", " ">> }

Layout(count, type_gap, key_gap, close_gap, between) ==
    [count |-> count, type_gap |-> type_gap, key_gap |-> key_gap,
     close_gap |-> close_gap, between |-> between]

\* one line after the key, a newline before the closing brace and between entries
PlainLayout(count) == Layout(count, <<>>, <<"\n", " ">>, <<"\n">>, <<"\n">>)

BookWord == <<"b","o","o","k">>

\* the text of one entry in the layout l
LaidOutEntry(type, key, fields_str, l) ==
    <<"@">> \o type \o l.type_gap \o <<"{">> \o key \o <<",">> \o l.key_gap
    \o fields_str \o l.close_gap \o <<"}">>

\* the text of a file of l.count entries in the layout l
LaidOutText(l) ==
    LaidOutEntry(Article, <<"k","1">>, Braced(TitleWord, <<"T">>), l)
    \o (IF l.count = 1 THEN <<>>
        ELSE l.between \o LaidOutEntry(BookWord, <<"k","2">>, Braced(YearWord, Y2020), l))

InitLayout ==
    /\ op = "extract_entries"
    /\ arg \in { Layout(n, tg, kg, cg, bg) :
                   n \in {1, 2}, tg \in TypeGaps, kg \in KeyGaps,
                   cg \in CloseGaps, bg \in BetweenGaps }
    /\ res = <<>>
    /\ IdleDedup
    /\ IdleFormat

ExtractEntriesCall ==
    /\ op = "extract_entries" /\ Len(res) = 0
    /\ res' = <<extract_entries(LaidOutText(arg))>>
    /\ UNCHANGED <<op, arg, dedupVars, formatVars>>

NextLayout == ExtractEntriesCall

SpecLayout == InitLayout /\ [][NextLayout]_vars

\* what is recovered from the records: type, key and field mapping of each
Recovered(records) ==
    [k \in 1..Len(records) |->
        <<records[k].type, records[k].original_key, parse_fields(records[k].fields_str)>>]

\* C15: what extract_entries and parse_fields recover from a text is what they
\* recover from the same entries in the plain layout.
C15_LayoutInsensitive ==
    (op = "extract_entries" /\ Len(res) = 1) =>
        Recovered(res[1]) = Recovered(extract_entries(LaidOutText(PlainLayout(arg.count))))

\* C16: no record's field string holds the start marker of an entry.
C16_NoMarkerInFieldString ==
    (op = "extract_entries" /\ Len(res) = 1) =>
        \A k \in 1..Len(res[1]) : ~EntryMatch(res[1][k].fields_str, 1).found

-----------------------------------------------------------------------------
(* clean_publications_v5.main: the format loop, then the sort of the       *)
(* rendered entries.                                                       *)

\* the ASCII characters in the order of their code points
AsciiSeq ==
    << "\t", "\n", "\r", " ", "!", "\"", "#", "$", "%", "&", "'", "(", ")",
        "*", "+", ",", "-", ".", "/", "0", "1", "2", "3", "4", "5", "6", "7",
        "8", "9", ":", ";", "<", "=", ">", "?", "@", "A", "B", "C", "D", "E",
        "F", "G", "H", "I", "J", "K", "L", "M", "N", "O", "P", "Q", "R", "S",
        "T", "U", "V", "W", "X", "Y", "Z", "[", "\\", "]", "^", "_", "GRAVE",
        "a", "b", "c", "d", "e", "f", "g", "h", "i", "j", "k", "l", "m", "n",
        "o", "p", "q", "r", "s", "t", "u", "v", "w", "x", "y", "z", "{", "|",
        "}", "~" >>

\* ord(c), up to the offset of the first character of AsciiSeq
Ord(c) == CHOOSE i \in 1..Len(AsciiSeq) : AsciiSeq[i] = c

\* a < b for two str values: the first differing character decides, a proper
\* prefix is smaller
RECURSIVE LessText(_, _)
LessText(a, b) ==
    IF b = <<>> THEN FALSE
    ELSE IF a = <<>> THEN TRUE
    ELSE IF Head(a) = Head(b) THEN LessText(Tail(a), Tail(b))
    ELSE Ord(Head(a)) < Ord(Head(b))

\* int(digits)
RECURSIVE ToInt(_)
ToInt(digits) ==
    IF digits = <<>> THEN 0
    ELSE 10 * ToInt(SubSeq(digits, 1, Len(digits) - 1))
         + (Ord(digits[Len(digits)]) - Ord("0"))

\* re.search(r'year\s*=\s*\{?(\d{4})\}?', entry) from position i: the four digits
\* of the first match, <<>> when there is none
RECURSIVE YearMatchFrom(_, _)
YearMatchFrom(s, i) ==
    IF i + Len(YearWord) - 1 > Len(s) THEN <<>>
    ELSE LET e == SkipWhile(s, i + Len(YearWord), SpaceChars)
             v == SkipWhile(s, e + 1, SpaceChars)
             d == IF v <= Len(s) /\ s[v] = "{" THEN v + 1 ELSE v
         IN  IF /\ MatchAt(s, i, YearWord)
                /\ e <= Len(s) /\ s[e] = "="
                /\ d + 3 <= Len(s)
                /\ \A k \in d..(d + 3) : s[k] \in DigitChars
             THEN SubSeq(s, d, d + 3)
             ELSE YearMatchFrom(s, i + 1)

\* sort_key(entry): (-int(year), entry), year being '0000' without a match
SortKeyMutant(entry) == <<0, entry>>
sort_key(entry) ==
    <<0 - ToInt(IF YearMatchFrom(entry, 1) = <<>> THEN <<"0","0","0","0">>
                ELSE YearMatchFrom(entry, 1)), entry>>

\* k1 <= k2 for two sort keys (tuples compare element by element)
KeyAtMost(k1, k2) ==
    \/ k1[1] < k2[1]
    \/ k1[1] = k2[1] /\ ~LessText(k2[2], k1[2])

\* x put into a sorted list, after the elements whose key is not larger
RECURSIVE InsertSorted(_, _)
InsertSorted(x, list) ==
    IF list = <<>> THEN <<x>>
    ELSE IF KeyAtMost(sort_key(Head(list)), sort_key(x))
         THEN <<Head(list)>> \o InsertSorted(x, Tail(list))
         ELSE <<x>> \o list

\* list.sort(key=sort_key): the stable sort
RECURSIVE SortedByKey(_)
SortedByKey(list) ==
    IF list = <<>> THEN <<>>
    ELSE InsertSorted(list[Len(list)], SortedByKey(SubSeq(list, 1, Len(list) - 1)))

MaxSorted == 3

Y2021 == <<"2","0","2","1">>

SortPool ==
    { Entry(<<"s","1">>, SmithBody(<<"1","0",".","1","/","x">>)),
      Entry(<<"s","2">>, Braced(AuthorWord, Doe) \o Sep \o Bare(YearWord, Y2020)),
      Entry(<<"s","3">>, Braced(TitleWord, <<"Z"," ","b">>) \o Sep \o Braced(YearWord, Y2021)),
      Entry(<<"s","4">>, Braced(TitleWord, <<"A"," ","b">>) \o Sep \o Braced(YearWord, Y1999)),
      Entry(<<"s","5">>, Braced(TitleWord, <<"N","o"," ","y","e","a","r">>)) }

\* the lists main can get from deduplicate_by_doi: no entry twice
InitMain ==
    /\ op = "main"
    /\ entries \in { es \in SeqsUpTo(SortPool, MaxSorted) :
                       \A i, j \in 1..Len(es) : es[i] = es[j] => i = j }
    /\ idx = 0
    /\ key_counts = <<>> /\ formatted_entries = <<>> /\ written_keys = <<>>
    /\ seen_dois = <<>> /\ seen_titles = {} /\ unique_entries = <<>> /\ kept_idx = <<>>
    /\ arg = <<>> /\ res = <<>>

\* one iteration of 'for entry in unique_entries'
MainFormat ==
    /\ op = "main" /\ idx < Len(entries)
    /\ \E r \in {format_entry(entries[idx + 1], key_counts)} :
          /\ key_counts' = r.key_counts
          /\ formatted_entries' = Append(formatted_entries, r.text)
          /\ written_keys' = Append(written_keys, r.key)
    /\ idx' = idx + 1
    /\ UNCHANGED <<entries, seen_dois, seen_titles, unique_entries, kept_idx, callVars>>

\* formatted_entries.sort(key=sort_key), and the write of the sorted entries
MainSortAndWrite ==
    /\ op = "main" /\ idx = Len(entries) /\ res = <<>>
    /\ formatted_entries' = SortedByKey(formatted_entries)
    /\ res' = <<SortedByKey(formatted_entries)>>
    /\ UNCHANGED <<op, arg, dedupVars, key_counts, written_keys>>

NextMain == MainFormat \/ MainSortAndWrite

SpecMain == InitMain /\ [][NextMain]_vars


\* the year field of entries[j] as a number, 0 for an entry without one
YearField(j) ==
    ToInt(Get(parse_fields(entries[j].fields_str), YearWord, <<>>))

\* the year field of the record a rendered text was made from
YearFieldOfText(text, rendered) ==
    YearField(CHOOSE j \in 1..Len(rendered) : rendered[j] = text)

\* the rendered entries of the whole input, in input order
RECURSIVE RenderAll(_, _)
RenderAll(es, counts) ==
    IF es = <<>> THEN <<>>
    ELSE <<format_entry(Head(es), counts).text>>
         \o RenderAll(Tail(es), format_entry(Head(es), counts).key_counts)

\* 'written' holds the texts of 'rendered', years descending, ties by text
InClaimedOrder(written, rendered) ==
    /\ Len(written) = Len(rendered)
    /\ \A t \in {rendered[k] : k \in 1..Len(rendered)} :
          Cardinality({i \in 1..Len(written) : written[i] = t})
              = Cardinality({i \in 1..Len(rendered) : rendered[i] = t})
    /\ \A i \in 1..(Len(written) - 1) :
          \/ YearFieldOfText(written[i], rendered) > YearFieldOfText(written[i + 1], rendered)
          \/ /\ YearFieldOfText(written[i], rendered) = YearFieldOfText(written[i + 1], rendered)
             /\ ~LessText(written[i + 1], written[i])

-----------------------------------------------------------------------------
(* The order of the field lines in the text format_entry renders.          *)

FileWord == <<"f","i","l","e">>

\* text.split('\n')
RECURSIVE TextLines(_)
TextLines(s) ==
    IF Find(s, <<"\n">>, 1) = 0 THEN <<s>>
    ELSE <<SubSeq(s, 1, Find(s, <<"\n">>, 1) - 1)>>
         \o TextLines(From(s, Find(s, <<"\n">>, 1) + 1))

\* the field names of the lines between the header line and the closing line
WrittenNames(text) ==
    [k \in 1..(Len(TextLines(text)) - 2) |->
        SubSeq(TextLines(text)[k + 1], 3, Find(TextLines(text)[k + 1], <<" ","=">>, 1) - 1)]

\* the stated order: field_order with file after url and note after editor
StatedOrder ==
    SubSeq(field_order, 1, 12) \o <<FileWord>> \o SubSeq(field_order, 13, 15)
    \o <<NoteWord>>

\* the names of 'names' that satisfy Keep, in their order
RECURSIVE Select(_, _)
Select(names, keep) ==
    IF names = <<>> THEN <<>>
    ELSE (IF Head(names) \in keep THEN <<Head(names)>> ELSE <<>>)
         \o Select(Tail(names), keep)

\* the names of the mapping, in encounter order
Names(fields) == [k \in 1..Len(fields) |-> fields[k].name]

\* the stated sequence of field names for a mapping
StatedNames(fields) ==
    Select(StatedOrder, {fields[k].name : k \in 1..Len(fields)})
    \o Select(Names(fields),
              {fields[k].name : k \in 1..Len(fields)}
                  \ ({StatedOrder[k] : k \in 1..Len(StatedOrder)} \cup skip_fields))

\* C18: the field lines of the rendered text are the present fields of author,
\* title, journal, booktitle, volume, number, pages, year, month, publisher,
\* doi, url, file, issn, isbn, editor, note in this order, then the other
\* fields in encounter order, without keywords, copyright and language.
C18_StatedFieldOrder ==
    (op = "round_trip" /\ Len(res) >= 2) =>
        WrittenNames(res[2]) = StatedNames(res[1])

-----------------------------------------------------------------------------
(* merge_pdfs_v3.main: the loop that writes the entries of the database,   *)
(* next to format_entry on the same fields.                                *)

EntryTypeWord == <<"E","N","T","R","Y","T","Y","P","E">>
IdWord        == <<"I","D">>

\* field_order of the writer loop
merge_field_order ==
    SubSeq(field_order, 1, 12) \o <<FileWord>> \o SubSeq(field_order, 13, 15)
    \o <<NoteWord>>

\* f.write(f"  {field} = {{{value}}},\n")
WriteFieldLine(field, value) ==
    <<" "," ">> \o field \o <<" ","=", " ","{">> \o value \o <<"}",",","\n">>

\* 'for field in field_order: if field in entry'
RECURSIVE WriteOrdered(_, _)
WriteOrdered(entry, order) ==
    IF order = <<>> THEN <<>>
    ELSE (IF HasKey(entry, Head(order))
          THEN WriteFieldLine(Head(order), Get(entry, Head(order), <<>>))
          ELSE <<>>) \o WriteOrdered(entry, Tail(order))

\* 'for field, value in entry.items(): if field not in written'
RECURSIVE WriteRemaining(_)
WriteRemaining(items) ==
    IF items = <<>> THEN <<>>
    ELSE (IF Head(items).name \notin
                 {EntryTypeWord, IdWord} \cup {merge_field_order[k] : k \in 1..Len(merge_field_order)}
          THEN WriteFieldLine(Head(items).name, Head(items).value)
          ELSE <<>>) \o WriteRemaining(Tail(items))

\* the characters one iteration of 'for entry in bib_db.entries' writes
WriteEntry(entry) ==
    <<"@">> \o Get(entry, EntryTypeWord, <<>>) \o <<"{">> \o Get(entry, IdWord, <<>>)
    \o <<",","\n">>
    \o WriteOrdered(entry, merge_field_order)
    \o WriteRemaining(entry)
    \o <<"}","\n","\n">>

MaxWritten == 3

WriterFields ==
    { [name |-> AuthorWord, value |-> SmithAuthor],
      [name |-> TitleWord,  value |-> <<"A"," ","b">>],
      [name |-> YearWord,   value |-> Y2020],
      [name |-> FileWord,   value |-> <<"a",".","p","d","f">>],
      [name |-> <<"z","z">>, value |-> <<"q">>] }

\* the entries of the database: type, key, then distinct fields
InitWriter ==
    /\ op = "write_entry"
    /\ arg \in { <<[name |-> EntryTypeWord, value |-> Article],
                   [name |-> IdWord, value |-> <<"k","1">>]>> \o fs :
                 fs \in { f \in SeqsUpTo(WriterFields, MaxWritten) :
                            \A i, j \in 1..Len(f) : f[i].name = f[j].name => i = j } }
    /\ res = <<>>
    /\ IdleDedup
    /\ IdleFormat

\* the writer loop of merge_pdfs_v3.main on the entry
MergeWrite ==
    /\ op = "write_entry" /\ Len(res) = 0
    /\ res' = <<WriteEntry(arg)>>
    /\ UNCHANGED <<op, arg, dedupVars, formatVars>>

\* format_entry on the parsed fields of the same entry, with an empty registry
FormatWrite ==
    /\ op = "write_entry" /\ Len(res) = 1
    /\ res' = Append(res, FormatParsed(Entry(<<"k","1">>, <<>>), SubSeq(arg, 3, Len(arg)), <<>>).text)
    /\ UNCHANGED <<op, arg, dedupVars, formatVars>>

NextWriter == MergeWrite \/ FormatWrite

SpecWriter == InitWriter /\ [][NextWriter]_vars

\* the line of the text that comes before its closing line "}"
LastLineBeforeClose(text) ==
    TextLines(text)[(CHOOSE c \in 1..Len(TextLines(text)) :
                        /\ TextLines(text)[c] = <<"}">>
                        /\ \A d \in (c + 1)..Len(TextLines(text)) :
                              TextLines(text)[d] # <<"}">>) - 1]

\* C19: in every written entry that has a field, the last field line (the line
\* before the closing brace line) does not end with a comma, in the text of
\* format_entry and in the text of the writer loop of merge_pdfs_v3.main.
C19_NoTrailingComma ==
    (op = "write_entry" /\ Len(arg) > 2) =>
        \A k \in 1..Len(res) :
            LastLineBeforeClose(res[k])[Len(LastLineBeforeClose(res[k]))] # ","

\* the same statement for the text of format_entry alone
FormatEntryHasNoTrailingComma ==
    (op = "write_entry" /\ Len(arg) > 2 /\ Len(res) = 2) =>
        LastLineBeforeClose(res[2])[Len(LastLineBeforeClose(res[2]))] # ","

-----------------------------------------------------------------------------
(* format_entry on many records that produce the same base key.            *)

MaxRecords == 28

\* the n-th record of a family: no DOI, and a title whose first TitleSuffixLen
\* alphanumeric characters are the family letter, followed by the number n
FamilyEntry(letter, n) ==
    Entry(<<"k">>,
          Braced(TitleWord,
                 [i \in 1..TitleSuffixLen |-> letter] \o <<" ">>
                 \o <<AsciiSeq[Ord("0") + (n \div 10)], AsciiSeq[Ord("0") + (n % 10)]>>))

\* the number of format_entry calls made with the registry
Registered(counts) ==
    Len(counts) + Get(counts, generate_citation_key(parse_fields(FamilyEntry("a", 0).fields_str), Article), 0)
                + Get(counts, generate_citation_key(parse_fields(FamilyEntry("b", 0).fields_str), Article), 0)

InitFamily ==
    /\ op = "format_entry"
    /\ arg = <<>> /\ res = <<>>
    /\ key_counts = <<>> /\ formatted_entries = <<>> /\ written_keys = <<>>
    /\ IdleDedup

\* format_entry(entry, key_counts) on the next record of one of the families
FormatFamilyEntry ==
    /\ op = "format_entry"
    /\ Registered(key_counts) < MaxRecords
    /\ \E letter \in {"a", "b"} :
          \E r \in {format_entry(FamilyEntry(letter, Registered(key_counts)), key_counts)} :
              /\ key_counts' = r.key_counts
              /\ res' = <<[key |-> r.key, base_key |-> r.base_key]>>
    /\ UNCHANGED <<op, arg, dedupVars, formatted_entries, written_keys>>

NextFamily == FormatFamilyEntry

SpecFamily == InitFamily /\ [][NextFamily]_vars

\* the number of earlier records that produced the base key of the last call
EarlierWithBaseKey == Get(key_counts, res[1].base_key, 0)

\* C20: the first record with a base key gets the base key unmodified; a later
\* record with the same base key gets the base key followed (after the
\* separator, if any) by one lowercase letter: a when one record with that base
\* key was registered before, b when two were, and so on.
C20_LetterSuffix ==
    (op = "format_entry" /\ res # <<>>) =>
        IF EarlierWithBaseKey = 0 THEN res[1].key = res[1].base_key
        ELSE /\ EarlierWithBaseKey <= Len(LowerSeq)
             /\ res[1].key \in { res[1].base_key \o <<LowerSeq[EarlierWithBaseKey]>>,
                                 res[1].base_key \o <<"_", LowerSeq[EarlierWithBaseKey]>> }

-----------------------------------------------------------------------------
(* parse_fields on bodies that repeat a field name.                        *)

CoauthorWord == <<"c","o">> \o AuthorWord

RepeatedFields ==
    { BodyField(TitleWord, <<"A"," ","b">>, Braced(TitleWord, <<"A"," ","b">>), TRUE),
      BodyField(TitleWord, <<"B">>, Quoted(TitleWord, <<"B">>), TRUE),
      BodyField(YearWord, Y2020, Bare(YearWord, Y2020), TRUE),
      BodyField(YearWord, Y1999, Braced(YearWord, Y1999), TRUE),
      BodyField(AuthorWord, SmithAuthor, Braced(AuthorWord, SmithAuthor), TRUE),
      BodyField(AuthorWord, Doe, Quoted(AuthorWord, Doe), TRUE),
      BodyField(CoauthorWord, <<"X">>, Braced(CoauthorWord, <<"X">>), TRUE) }

InitRepeated ==
    /\ op = "parse_fields"
    /\ arg \in SeqsUpTo(RepeatedFields, MaxBodyFields)
    /\ res = <<>>
    /\ IdleDedup
    /\ IdleFormat

SpecRepeated == InitRepeated /\ [][NextBody]_vars

\* the value of the first field of the body whose name is exactly n
FirstValue(fs, n) ==
    fs[CHOOSE k \in 1..Len(fs) :
          fs[k].name = n /\ \A j \in 1..(k - 1) : fs[j].name # n].value

\* C21: for every field name of the body, author included, the mapping holds
\* the value of the first field of exactly that name; later fields of the name
\* are ignored, and no other name is in the mapping.
C21_FirstOccurrenceWins ==
    (op = "parse_fields" /\ res # <<>> /\ arg \in SeqsUpTo(RepeatedFields, MaxBodyFields)) =>
        /\ \A k \in 1..Len(arg) :
              /\ HasKey(res[1], arg[k].name)
              /\ Get(res[1], arg[k].name, <<>>) = FirstValue(arg, arg[k].name)
        /\ \A i \in 1..Len(res[1]) : \E k \in 1..Len(arg) : arg[k].name = res[1][i].name

-----------------------------------------------------------------------------
(* parse_fields on bodies with quote-delimited values.                     *)

EscapedQuote == <<"\\", "\"">>

QuotedFields ==
    { BodyField(NoteWord, <<"q">>, Quoted(NoteWord, <<"q">>), TRUE),
      BodyField(TitleWord, <<"a"," ">> \o EscapedQuote \o <<" ","b">>,
                Quoted(TitleWord, <<"a"," ">> \o EscapedQuote \o <<" ","b">>), TRUE),
      BodyField(AuthorWord, <<"D","o","e"," ">> \o EscapedQuote \o <<"x">> \o EscapedQuote,
                Quoted(AuthorWord, <<"D","o","e"," ">> \o EscapedQuote \o <<"x">> \o EscapedQuote), TRUE),
      BodyField(JournalWord, <<"J">>, Quoted(JournalWord, <<"J">>), TRUE),
      BodyField(YearWord, Y2020, Bare(YearWord, Y2020), TRUE) }

\* the bodies: at most MaxBodyFields fields of different names
InitQuoted ==
    /\ op = "parse_fields"
    /\ arg \in { fs \in SeqsUpTo(QuotedFields, MaxBodyFields) :
                   \A i, j \in 1..Len(fs) : fs[i].name = fs[j].name => i = j }
    /\ res = <<>>
    /\ IdleDedup
    /\ IdleFormat

SpecQuoted == InitQuoted /\ [][NextBody]_vars

\* C22: every quote-delimited value of the body is returned up to the next
\* unescaped quotation mark: a backslash-escaped quote stays inside the value.
C22_EscapedQuoteKept ==
    (op = "parse_fields" /\ res # <<>>
        /\ arg \in SeqsUpTo(QuotedFields, MaxBodyFields)) =>
        \A k \in 1..Len(arg) :
            Get(res[1], arg[k].name, <<>>) = arg[k].value

-----------------------------------------------------------------------------
(* find_duplicates on preprint and published entries of one title.         *)

ArxivWord == <<"a","r","x","i","v">>

PreprintPool ==
    { AuditEntry(<<"p","1">>, <<"1","0",".","1","2","3","4","/","x">>, WellBeing),
      AuditEntry(<<"p","2">>, <<"1","0",".","4","8","5","5","0","/","a","r","X","i","v",".","1">>,
                 WellBeing),
      AuditEntry(<<"p","3">>, <<"1","0",".","3","1","2","3","4","/","o","s","f",".","i","o","/","x">>,
                 WellBeing),
      AuditEntry(<<"p","4">>, <<"1","0",".","1","2","3","4","/","y">>, WellBeing),
      AuditEntry(<<"p","5">>, <<>>, <<"O","t","h","e","r">>) }

InitPreprint ==
    /\ op = "find_duplicates"
    /\ arg \in SeqsUpTo(PreprintPool, MaxAudit)
    /\ res = <<>>
    /\ IdleDedup
    /\ IdleFormat

SpecPreprint == InitPreprint /\ [][NextAudit]_vars

\* the identifier holds one of the stated preprint-server markers
StatedMarker(doi) ==
    \/ PreprintMarker(Lower(doi))
    \/ Contains(Lower(doi), ArxivWord)
    \/ Contains(Lower(doi), <<"b","i","o","r","x","i","v">>)
    \/ Contains(Lower(doi), <<"m","e","d","r","x","i","v">>)

\* C23: a pair of entries with similar titles is reported as preprint_published
\* exactly when one and only one of the two identifiers holds a preprint-server
\* marker (OSF, PsyArXiv, arXiv, bioRxiv, medRxiv or the registered preprint DOI
\* prefix), and as similar_title otherwise.
C23_PreprintPairClassified ==
    (op = "find_duplicates" /\ Len(res) = 1 /\ arg \in SeqsUpTo(PreprintPool, MaxAudit)) =>
        \A i, j \in 1..Len(arg) :
            (i < j /\ AuditSimilar(AuditNormalizeTitle(arg[i].title),
                                   AuditNormalizeTitle(arg[j].title))) =>
                /\ \E k \in 1..Len(res[1]) : PairsTogether(res[1][k], arg[i].ID, arg[j].ID)
                /\ \A k \in 1..Len(res[1]) :
                      PairsTogether(res[1][k], arg[i].ID, arg[j].ID) =>
                          res[1][k].type =
                              IF StatedMarker(arg[i].doi) # StatedMarker(arg[j].doi)
                              THEN "preprint_published" ELSE "similar_title"

-----------------------------------------------------------------------------
(* merge_pdfs_v3.main: the loop that attaches the PDF links of the CV      *)
(* entries to the entries of the database.                                 *)

MaxBib == 2
MaxCv  == 2

\* an entry of bib_db.entries; doi, title, file = <<>> stand for absent keys
BibEntry(id, doi, title, file) == [ID |-> id, doi |-> doi, title |-> title, file |-> file]

\* a record of extract_bibitems_with_pdfs; doi, title = <<>> stand for None
CvEntry(key, pdf_url, doi, title) ==
    [key |-> key, pdf_url |-> pdf_url, doi |-> doi, title |-> title]

AlphaTitle == <<"A","l","p","h","a"," ","b","e","t","a","s"," ","g","a","m","m","a">>

BibPool ==
    { BibEntry(<<"b","1">>, <<"1","0",".","1","2","3","4","/","x","y">>, <<"O","t","h","e","r">>, <<>>),
      BibEntry(<<"b","2">>, HttpsDoiOrg \o <<"1","0",".","1","2","3","4","/","X">>, <<>>, <<>>),
      BibEntry(<<"b","3">>, <<>>, AlphaTitle, <<>>),
      BibEntry(<<"b","4">>, <<"1","0",".","1","2","3","4","/","x">>, <<>>, <<"f",".","p","d","f">>) }

CvPool ==
    { CvEntry(<<"c","1">>, <<"u","1">>, <<"1","0",".","1","2","3","4","/","x">>, <<>>),
      CvEntry(<<"c","2">>, <<"u","2">>, <<>>, AlphaTitle),
      CvEntry(<<"c","3">>, <<"u","3">>, <<"1","0",".","1","2","3","4","%","2","f","x","y">>, <<>>) }

PercentTwoF == <<"%","2","f">>

\* bib_doi: entry.get('doi', '').lower() without a leading resolver address
BibDoi(entry) == StripDoiPrefix(Lower(entry.doi))

\* cv_doi_norm and bib_doi_norm: x.replace('%2f', '/').lower()
DoiNorm(doi) == Lower(Replace(doi, PercentTwoF, <<"/">>))

\* the condition under which the DOI loop attaches cv_entry to the entry
DoiMatches(cv_entry, bib_doi) ==
    /\ cv_entry.doi # <<>> /\ bib_doi # <<>>
    /\ \/ DoiNorm(cv_entry.doi) = DoiNorm(bib_doi)
       \/ Contains(DoiNorm(bib_doi), DoiNorm(cv_entry.doi))
       \/ Contains(DoiNorm(cv_entry.doi), DoiNorm(bib_doi))

\* the condition under which the title loop attaches cv_entry to the entry
TitleMatches(cv_entry, bib_title) ==
    cv_entry.title # <<>> /\ titles_match(bib_title, cv_entry.title, <<3, 5>>)

\* the first index of a sequence of truth values that holds TRUE, 0 when none
FirstTrue(flags) ==
    IF \E k \in 1..Len(flags) : flags[k]
    THEN CHOOSE k \in 1..Len(flags) : flags[k] /\ \A j \in 1..(k - 1) : ~flags[j]
    ELSE 0

\* the DOI loop comes first, the title loop runs when it attached nothing
PickMatch(by_doi, by_title) ==
    IF by_doi # 0 THEN [k |-> by_doi, kind |-> "DOI"]
    ELSE IF by_title # 0 THEN [k |-> by_title, kind |-> "title"]
    ELSE [k |-> 0, kind |-> "none"]

\* the index of the first CV entry that the DOI loop, then the title loop takes
\* (0 when none), with the kind of the match
FirstMatch(entry, cv_entries) ==
    PickMatch(FirstTrue([k \in 1..Len(cv_entries) |-> DoiMatches(cv_entries[k], BibDoi(entry))]),
              FirstTrue([k \in 1..Len(cv_entries) |-> TitleMatches(cv_entries[k], entry.title)]))

\* bib_db.entries in 'entries', the loop position in idx, cv_entries in arg,
\* matched_entries in res
InitAttach ==
    /\ op = "attach"
    /\ entries \in SeqsUpTo(BibPool, MaxBib)
    /\ arg \in SeqsUpTo(CvPool, MaxCv)
    /\ idx = 0
    /\ res = <<>>
    /\ seen_dois = <<>> /\ seen_titles = {} /\ unique_entries = <<>> /\ kept_idx = <<>>
    /\ IdleFormat

\* 'if 'file' in entry: continue'
AttachSkip ==
    /\ op = "attach" /\ idx < Len(entries)
    /\ entries[idx + 1].file # <<>>
    /\ idx' = idx + 1
    /\ UNCHANGED <<entries, seen_dois, seen_titles, unique_entries, kept_idx, formatVars, callVars>>

\* one iteration of 'for entry in bib_db.entries' for an entry without a file
AttachEntry ==
    /\ op = "attach" /\ idx < Len(entries)
    /\ entries[idx + 1].file = <<>>
    /\ \E m \in {FirstMatch(entries[idx + 1], arg)} :
          IF m.k = 0 THEN UNCHANGED <<entries, res>>
          ELSE /\ entries' = [entries EXCEPT ![idx + 1].file = arg[m.k].pdf_url]
               /\ res' = Append(res, <<entries[idx + 1].ID, arg[m.k].key, m.kind>>)
    /\ idx' = idx + 1
    /\ UNCHANGED <<op, arg, seen_dois, seen_titles, unique_entries, kept_idx, formatVars>>

NextAttach == AttachSkip \/ AttachEntry

SpecAttach == InitAttach /\ [][NextAttach]_vars

\* C24: the DOI match of merge_pdfs_v3.main treats the DOI of a database entry
\* and the DOI of a CV entry as the same identifier exactly when their
\* normalized forms are equal: every link attached by DOI joins two DOIs with
\* equal normalized forms.
C24_DoiMatchIsNormalizedEquality ==
    op = "attach" =>
        \A n \in 1..Len(res) :
            res[n][3] = "DOI" =>
                \A i \in 1..Len(entries), k \in 1..Len(arg) :
                    (entries[i].ID = res[n][1] /\ arg[k].key = res[n][2]) =>
                        DoiNorm(arg[k].doi) = DoiNorm(BibDoi(entries[i]))

-----------------------------------------------------------------------------
(* extract_dois_to_bib.py: main and fetch_bibtex_from_doi.  arg holds the  *)
(* sorted DOI list; res holds the state of the run: the position in main   *)
(* (pc, i), the count written in the header (total), the outcomes of the   *)
(* requests issued for every DOI (outcomes), what fetch_bibtex_from_doi    *)
(* returned for it (returned) and the DOIs whose entry was written.        *)

MaxDois == 2

\* retry=3, the default main calls fetch_bibtex_from_doi with
DefaultRetry == 3

\* what one urlopen call can do: a body, an empty body, HTTP 404, another
\* HTTP error, any other exception (timeout, connection, decoding)
RequestOutcomes == {"body", "empty", "http_404", "http_other", "exception"}

\* 'for attempt in range(retry)': another attempt is made
AttemptsLeftMutant(attempt, retry) == attempt <= retry
AttemptsLeft(attempt, retry) == attempt < retry

InitFetch ==
    /\ op = "extract_dois_main"
    /\ arg \in {[k \in 1..n |-> k] : n \in 0..MaxDois}
    /\ res = [pc |-> "header", total |-> 0, i |-> 0, attempt |-> 0,
              outcomes |-> [k \in 1..Len(arg) |-> <<>>],
              returned |-> [k \in 1..Len(arg) |-> "pending"],
              written |-> <<>>]
    /\ IdleDedup
    /\ IdleFormat

\* the state of main after fetch_bibtex_from_doi returned 'value' for DOI i with
\* the request outcomes 'outs': the entry is written when the value is a
\* non-empty text, and the loop goes to the next DOI
AfterReturn(st, outs, value) ==
    [st EXCEPT !.outcomes[st.i] = outs,
               !.returned[st.i] = value,
               !.written = IF value = "body" THEN Append(@, st.i) ELSE @,
               !.attempt = 0,
               !.i = IF st.i < Len(arg) THEN st.i + 1 ELSE st.i,
               !.pc = IF st.i < Len(arg) THEN "fetch" ELSE "done"]

\* the state after a failed attempt: the next attempt, or the return of None
\* when the loop over range(retry) is over
AfterFailure(st, outs) ==
    IF AttemptsLeft(st.attempt + 1, DefaultRetry)
    THEN [st EXCEPT !.outcomes[st.i] = outs, !.attempt = st.attempt + 1]
    ELSE AfterReturn(st, outs, "None")

\* the header lines of main, written before any DOI is fetched
WriteHeader ==
    /\ op = "extract_dois_main" /\ res.pc = "header"
    /\ res' = [res EXCEPT !.total = Len(arg),
                          !.i = IF Len(arg) > 0 THEN 1 ELSE 0,
                          !.pc = IF Len(arg) > 0 THEN "fetch" ELSE "done"]
    /\ UNCHANGED <<op, arg, dedupVars, formatVars>>

\* one attempt of fetch_bibtex_from_doi for DOI i, and what follows from it
Request ==
    /\ op = "extract_dois_main" /\ res.pc = "fetch"
    /\ AttemptsLeft(res.attempt, DefaultRetry)
    /\ \E outcome \in RequestOutcomes :
          \E outs \in {Append(res.outcomes[res.i], outcome)} :
              res' = IF outcome \in {"body", "empty"} THEN AfterReturn(res, outs, outcome)
                     ELSE IF outcome = "http_404" THEN AfterReturn(res, outs, "None")
                     ELSE AfterFailure(res, outs)
    /\ UNCHANGED <<op, arg, dedupVars, formatVars>>

NextFetch == WriteHeader \/ Request

SpecFetch == InitFetch /\ [][NextFetch]_vars

\* C25: when the file is complete, the total entry count written in its header
\* equals the number of entries written below the header.
C25_HeaderCountIsEntryCount ==
    (op = "extract_dois_main" /\ res.pc = "done") => res.total = Len(res.written)


\* the request outcomes that end fetch_bibtex_from_doi at once
EndsFetch(outcome) == outcome \in {"body", "empty", "http_404"}

\* C26: for every DOI, fetch_bibtex_from_doi issues at most retry requests and
\* none after a success or an HTTP 404; a fetch that did not succeed returns
\* None (after retry failed requests, or at the 404), and main then goes on
\* with the next DOI, or ends when there is none.
C26_BoundedRetryThenGoOn ==
    (op = "extract_dois_main") =>
        \A k \in 1..Len(arg) :
            /\ Len(res.outcomes[k]) <= DefaultRetry
            /\ \A j \in 1..(Len(res.outcomes[k]) - 1) : ~EndsFetch(res.outcomes[k][j])
            /\ res.returned[k] # "pending" =>
                  /\ res.outcomes[k] # <<>>
                  /\ res.returned[k] =
                        IF res.outcomes[k][Len(res.outcomes[k])] \in {"body", "empty"}
                        THEN res.outcomes[k][Len(res.outcomes[k])] ELSE "None"
                  /\ ~EndsFetch(res.outcomes[k][Len(res.outcomes[k])])
                        => Len(res.outcomes[k]) = DefaultRetry
                  /\ IF k < Len(arg) THEN res.pc \in {"fetch", "done"} /\ res.i > k
                     ELSE res.pc = "done"
            /\ res.returned[k] = "pending" => (res.pc = "header" \/ res.i <= k)

\* the first DOI failed on every attempt, and the entry of the second DOI was
\* fetched and written after it
C26_Witness ==
    /\ op = "extract_dois_main" /\ res.pc = "done" /\ Len(arg) = 2
    /\ res.outcomes[1] = <<"exception", "http_other", "exception">>
    /\ res.returned[1] = "None"
    /\ res.returned[2] = "body" /\ res.written = <<2>>

-----------------------------------------------------------------------------
(* parse_fields, one iteration of its scanning loop at a time.  arg holds  *)
(* fields_str, idx the scan position pos (counted from 1) and res[1] the   *)
(* mapping built so far.                                                   *)

MaxScanTokens == 4

ScanTokens == { <<"a","=">>, <<"{">>, <<"}">>, <<"\"">>, <<"1">>, <<"x">>, <<" ">> }

InitScan ==
    /\ op = "parse_loop"
    /\ arg \in {Concat(ts) : ts \in SeqsUpTo(ScanTokens, MaxScanTokens)}
    /\ idx = 1
    /\ res = <<IF parse_author_field(arg).ok /\ parse_author_field(arg).value # <<>>
               THEN <<[name |-> AuthorWord, value |-> parse_author_field(arg).value]>>
               ELSE <<>>>>
    /\ entries = <<>> /\ seen_dois = <<>> /\ seen_titles = {}
    /\ unique_entries = <<>> /\ kept_idx = <<>>
    /\ IdleFormat

\* one iteration of 'while pos < len(fields_str)': a break, or the next position
ScanIteration ==
    /\ op = "parse_loop" /\ idx <= Len(arg)
    /\ \E st \in {ParseStep(arg, idx, res[1])} :
          IF st.stop
          THEN op' = "parse_done" /\ UNCHANGED <<idx, res>>
          ELSE op' = op /\ idx' = st.pos /\ res' = <<st.fields>>
    /\ UNCHANGED <<arg, entries, seen_dois, seen_titles, unique_entries, kept_idx, formatVars>>

\* the loop condition fails: 'return fields'
ScanExit ==
    /\ op = "parse_loop" /\ idx > Len(arg)
    /\ op' = "parse_done"
    /\ UNCHANGED <<arg, res, dedupVars, formatVars>>

NextScan == ScanIteration \/ ScanExit

\* the loop is a sequential program: an iteration that can run does run
SpecScan == InitScan /\ [][NextScan]_vars /\ WF_vars(NextScan)

\* C27: every iteration of the scanning loop of parse_fields either leaves the
\* loop or moves the scan position strictly forward, never beyond the end of the
\* string by more than one, and the loop ends on every input, with the mapping
\* parse_fields returns.
C27_ScanTerminates ==
    /\ [][op = "parse_loop" =>
            \/ op' = "parse_done"
            \/ idx' > idx /\ idx' <= Len(arg) + 1]_vars
    /\ <>(op = "parse_done" /\ res[1] = parse_fields(arg))

\* the loop ended on a body with an unterminated brace group followed by another
\* field, which was read
C27_Witness ==
    /\ op = "parse_done"
    /\ arg = <<"a","=","{","a","=","1">>
    /\ res[1] = <<[name |-> <<"a">>, value |-> <<"1">>]>>

-----------------------------------------------------------------------------
(* deduplicate_by_doi applied to its own output: the first call runs on    *)
(* 'entries'; the second call runs on the list the first call returned,    *)
(* which res keeps, while arg keeps the argument of the first call.        *)

InitTwice ==
    /\ op = "deduplicate_twice"
    /\ entries \in SeqsUpTo(DedupPool, MaxEntries)
    /\ idx = 0
    /\ seen_dois = <<>>
    /\ seen_titles = {}
    /\ unique_entries = <<>>
    /\ kept_idx = <<>>
    /\ arg = <<>> /\ res = <<>>
    /\ IdleFormat

\* the first call returns unique_entries, and deduplicate_by_doi is called on it
SecondCall ==
    /\ op = "deduplicate_twice" /\ res = <<>>
    /\ idx = Len(entries)
    /\ arg' = entries
    /\ res' = <<unique_entries>>
    /\ entries' = unique_entries
    /\ idx' = 0
    /\ seen_dois' = <<>>
    /\ seen_titles' = {}
    /\ unique_entries' = <<>>
    /\ kept_idx' = <<>>
    /\ UNCHANGED <<op, formatVars>>

NextTwice == DedupStep \/ SecondCall

SpecTwice == InitTwice /\ [][NextTwice]_vars

\* C28: when the second call has ended, the list it returns is the list it was
\* given, the output of the first call: the same entries in the same order.
C28_DedupIdempotent ==
    (op = "deduplicate_twice" /\ res # <<>> /\ idx = Len(entries)) =>
        unique_entries = res[1]

\* the second call has ended on the output of a first call that replaced its
\* first entry by the second and dropped another entry
C28_Witness ==
    /\ op = "deduplicate_twice" /\ res # <<>> /\ idx = Len(entries)
    /\ Len(arg) = 3 /\ Len(res[1]) = 2
    /\ res[1][1] = arg[2]
    /\ unique_entries = res[1]

-----------------------------------------------------------------------------
(* tag_cv.py: the tagger of the bibliography entries of the CV.  A text is *)
(* held as the sequence of its lines, each without its line end.           *)

BibitemWord   == <<"\\","b","i","b","i","t","e","m","{">>
TypeTagWord   == <<"%"," ","@","t","y","p","e","{">>
BeginBibWord  == <<"\\","b","e","g","i","n","{","t","h","e","b","i","b","l","i","o","g","r","a","p","h","y","}">>
EndBibWord    == <<"\\","e","n","d","{","t","h","e","b","i","b","l","i","o","g","r","a","p","h","y","}">>
NewblockWord  == <<"\\","n","e","w","b","l","o","c","k">>

YearSection      == <<"y","e","a","r">>
SoftwareType     == <<"s","o","f","t","w","a","r","e">>
PreprintType     == <<"p","r","e","p","r","i","n","t">>
EditedBookType   == <<"e","d","i","t","e","d","-","b","o","o","k">>
DissertationType == <<"d","i","s","s","e","r","t","a","t","i","o","n">>
ReviewType       == <<"r","e","v","i","e","w">>
ProceedingType   == <<"p","r","o","c","e","e","d","i","n","g">>
ChapterType      == <<"c","h","a","p","t","e","r">>

\* line.strip().startswith("%")
Commented(line) == MatchAt(line, SkipWhile(line, 1, SpaceChars), <<"%">>)

\* re.match(r"\s*\\bibitem\{", line)
StartsBibitem(line) == MatchAt(line, SkipWhile(line, 1, SpaceChars), BibitemWord)

\* group 1 of re.match(r"\s*\\bibitem\{([^}]+)\}", line) for a key that starts at
\* position k; <<>> when the pattern does not match
KeyFrom(line, k) ==
    IF Find(line, <<"}">>, k) > k THEN Slice(line, k, Find(line, <<"}">>, k)) ELSE <<>>

BibitemKey(line) ==
    IF StartsBibitem(line)
    THEN KeyFrom(line, SkipWhile(line, 1, SpaceChars) + Len(BibitemWord))
    ELSE <<>>

\* re.match(r"% @type\{", line)
StartsTypeTag(line) == MatchAt(line, 1, TypeTagWord)

\* the position after the longest run of 'sub' that starts at position j
RECURSIVE SkipSubs(_, _)
SkipSubs(line, j) ==
    IF MatchAt(line, j, <<"s","u","b">>) THEN SkipSubs(line, j + 3) ELSE j

\* re.search(r"\\(?:sub)*section\*?\{", line)
SectionCommandAt(line, p) ==
    /\ MatchAt(line, p, <<"s","e","c","t","i","o","n">>)
    /\ MatchAt(line, p + 7, <<"{">>) \/ MatchAt(line, p + 7, <<"*","{">>)
HasSectionCommand(line) ==
    \E i \in 1..Len(line) : line[i] = "\\" /\ SectionCommandAt(line, SkipSubs(line, i + 1))

\* re.search of \\subsubsection\*\{ prefix \d{4} \}
HasYearHeader(line, prefix) ==
    \E i \in 1..Len(line) :
        /\ MatchAt(line, i, <<"\\","s","u","b","s","u","b","s","e","c","t","i","o","n","*","{">> \o prefix)
        /\ \A d \in 0..3 : /\ i + 16 + Len(prefix) + d <= Len(line)
                           /\ line[i + 16 + Len(prefix) + d] \in DigitChars
        /\ MatchAt(line, i + 20 + Len(prefix), <<"}">>)

\* detect_section(line); <<>> stands for None
detect_section(line) ==
    IF Commented(line) THEN <<>>
    ELSE IF Contains(line, <<"\\","s","u","b","s","e","c","t","i","o","n","*","{","S","o","f","t","w","a","r","e","}">>) THEN SoftwareType
    ELSE IF Contains(line, <<"\\","s","u","b","s","u","b","s","e","c","t","i","o","n","*","{","P","r","e","-","p","r","i","n","t","s","}">>) THEN PreprintType
    ELSE IF Contains(line, <<"\\","s","u","b","s","u","b","s","e","c","t","i","o","n","*","{","E","d","i","t","e","d"," ","B","o","o","k","s","}">>) THEN EditedBookType
    ELSE IF Contains(line, <<"\\","s","u","b","s","u","b","s","e","c","t","i","o","n","*","{","D","i","s","s","e","r","t","a","t","i","o","n","}">>) THEN DissertationType
    ELSE IF HasYearHeader(line, <<>>) THEN YearSection
    ELSE IF HasYearHeader(line, <<"p","r","e","-">>) THEN YearSection
    ELSE <<>>

\* \b at position i: exactly one of the characters at i - 1 and i is a word character
WordBoundary(s, i) ==
    (i - 1 >= 1 /\ i - 1 <= Len(s) /\ IsWord(s[i - 1])) # (i >= 1 /\ i <= Len(s) /\ IsWord(s[i]))

\* \bIn\b followed, after 1 to 200 characters, by one of the texts 'targets',
\* with a \b after the target when 'bounded' (the target then also starts at a \b)
InThenWithin(s, in, targets, bounded) ==
    \E i \in 1..Len(s) :
        /\ MatchAt(s, i, in) /\ WordBoundary(s, i) /\ WordBoundary(s, i + 2)
        /\ \E j \in (i + 3)..Min(i + 202, Len(s)) : \E t \in targets :
              /\ MatchAt(s, j, t)
              /\ bounded => (WordBoundary(s, j) /\ WordBoundary(s, j + Len(t)))

\* re.search(r"\\newblock\s+In\s+\{\\em\b", text)
NewblockInEm(s) ==
    \E i \in 1..Len(s) :
        /\ MatchAt(s, i, NewblockWord)
        /\ SkipWhile(s, i + 9, SpaceChars) > i + 9
        /\ MatchAt(s, SkipWhile(s, i + 9, SpaceChars), <<"I","n">>)
        /\ SkipWhile(s, SkipWhile(s, i + 9, SpaceChars) + 2, SpaceChars)
               > SkipWhile(s, i + 9, SpaceChars) + 2
        /\ MatchAt(s, SkipWhile(s, SkipWhile(s, i + 9, SpaceChars) + 2, SpaceChars), <<"{","\\","e","m">>)
        /\ WordBoundary(s, SkipWhile(s, SkipWhile(s, i + 9, SpaceChars) + 2, SpaceChars) + 4)

\* the content heuristics of classify_entry on the joined text
ClassifyText(text) ==
    IF \/ Contains(text, <<"B","o","o","k"," ","r","e","v","i","e","w">>) \/ Contains(text, <<"b","o","o","k"," ","r","e","v","i","e","w">>)
       \/ Contains(text, <<"R","e","v","i","e","w"," ","o","f"," ","{">>)
    THEN ReviewType
    ELSE IF Contains(Lower(text), <<"(","p","r","o","c","e","e","d","i","n","g","s",")">>) THEN ProceedingType
    ELSE IF InThenWithin(text, <<"I","n">>, {<<"(","E","d","s",".",")">>, <<"(","E","d",".",")">>}, FALSE) THEN ChapterType
    ELSE IF InThenWithin(Lower(text), <<"i","n">>, {<<"e","d","i","t","e","d"," ","b","y">>}, TRUE) THEN ChapterType
    ELSE IF NewblockInEm(text) /\ ~Contains(Lower(text), <<"i","n"," ","p","r","e","s","s">>) THEN ChapterType
    ELSE Article

\* classify_entry(lines, section)
classify_entry(lines, section) ==
    IF section \in {SoftwareType, PreprintType, EditedBookType, DissertationType}
    THEN section
    ELSE ClassifyText(JoinSpace(lines))

\* the line ends the entry that collect_entry_lines collects
EndsEntry(line) ==
    \/ StartsBibitem(line)
    \/ HasSectionCommand(line) /\ ~Commented(line)
    \/ Contains(line, EndBibWord)

\* end_idx of collect_entry_lines: the first position from i on whose line ends
\* the entry, Len(lines) + 1 when none
RECURSIVE CollectEnd(_, _)
CollectEnd(lines, i) ==
    IF i > Len(lines) \/ EndsEntry(lines[i]) THEN i ELSE CollectEnd(lines, i + 1)

\* collect_entry_lines(lines, start_idx), for the end index 'end'
collect_entry_lines(lines, start_idx) ==
    [entry_lines |-> SubSeq(lines, start_idx, CollectEnd(lines, start_idx + 1) - 1),
     end_idx |-> CollectEnd(lines, start_idx + 1)]

\* f"% @type{{{pub_type}}}"
TypeTag(pub_type) == TypeTagWord \o pub_type \o <<"}">>

\* a writer that leaves the tag of the entry out
WithTagMutant(tagged_lines, pub_type) == tagged_lines

\* the tag of the entry replaces a tag in the last line written, or is added
WithTag(tagged_lines, pub_type) ==
    IF tagged_lines # <<>> /\ StartsTypeTag(tagged_lines[Len(tagged_lines)])
    THEN [tagged_lines EXCEPT ![Len(tagged_lines)] = TypeTag(pub_type)]
    ELSE Append(tagged_lines, TypeTag(pub_type))

\* the bibitem branch of the loop of tag_cv for the collected entry c and its type
TagEntry(st, key, c, pub_type) ==
    [st EXCEPT !.entries = Append(@, [key |-> key, type |-> pub_type, section |-> st.current_section]),
               !.tagged_lines = WithTag(@, pub_type) \o c.entry_lines,
               !.i = c.end_idx]

TagCollected(st, lines, key, c) ==
    TagEntry(st, key, c, classify_entry(c.entry_lines, st.current_section))

\* a line that is copied as it is
CopyLine(st, line) == [st EXCEPT !.tagged_lines = Append(@, line), !.i = @ + 1]

\* one iteration of the while loop of tag_cv on the line at position st.i
TagStep(st, lines, line) ==
    IF Contains(line, BeginBibWord) THEN [CopyLine(st, line) EXCEPT !.in_bibliography = TRUE]
    ELSE IF Contains(line, EndBibWord) THEN [CopyLine(st, line) EXCEPT !.in_bibliography = FALSE]
    ELSE IF ~st.in_bibliography THEN CopyLine(st, line)
    ELSE IF detect_section(line) # <<>>
         THEN [CopyLine(st, line) EXCEPT !.current_section = detect_section(line)]
    ELSE IF BibitemKey(line) # <<>> /\ ~Commented(line)
         THEN TagCollected(st, lines, BibitemKey(line), collect_entry_lines(lines, st.i))
    ELSE CopyLine(st, line)

RECURSIVE TagLoop(_, _)
TagLoop(st, lines) ==
    IF st.i > Len(lines) THEN st ELSE TagLoop(TagStep(st, lines, lines[st.i]), lines)

\* tag_cv on the lines of the text: the lines written and the entries returned
tag_cv(lines) ==
    TagLoop([i |-> 1, current_section |-> YearSection, in_bibliography |-> FALSE,
             tagged_lines |-> <<>>, entries |-> <<>>], lines)


-----------------------------------------------------------------------------
(* count_publications.py: the reader of the tagged CV.                     *)

\* the position after the run of characters that are not white space from i on
RECURSIVE SkipNonSpace(_, _)
SkipNonSpace(s, i) ==
    IF i > Len(s) \/ s[i] \in SpaceChars THEN i ELSE SkipNonSpace(s, i + 1)

\* the closing braces that can end \S+ in % @type\{(\S+)\}, for a run that ends before e
TagCloses(line, e) == {k \in 10..(e - 1) : line[k] = "}"}

\* group 1 of % @type\{(\S+)\} for the run that ends before e: \S+ is greedy,
\* so the group ends at the last closing brace of the run; <<>> when no match
TypeGroup(line, closes) ==
    IF closes = {} THEN <<>>
    ELSE Slice(line, 9, CHOOSE k \in closes : \A m \in closes : m <= k)

\* group 1 of re.match(r"% @type\{(\S+)\}", line); <<>> when the line is no tag
TypeOfTag(line) ==
    IF StartsTypeTag(line) THEN TypeGroup(line, TagCloses(line, SkipNonSpace(line, 9)))
    ELSE <<>>

\* the inner loop of extract_cv_entries ends at this line
EndsCvEntry(l) ==
    \/ StartsBibitem(l) \/ StartsTypeTag(l)
    \/ HasSectionCommand(l) /\ ~Commented(l)

RECURSIVE CvEntryEnd(_, _)
CvEntryEnd(lines, j) ==
    IF j > Len(lines) \/ EndsCvEntry(lines[j]) THEN j ELSE CvEntryEnd(lines, j + 1)

\* \\newblock\s+ matches at position i
NewblockAt(s, i) ==
    MatchAt(s, i, NewblockWord) /\ i + 9 <= Len(s) /\ s[i + 9] \in SpaceChars

\* (.*?)(?=\\newblock|$) from position 'start' on
UpToNewblock(s, start) ==
    IF Find(s, NewblockWord, start) = 0 THEN From(s, start)
    ELSE Slice(s, start, Find(s, NewblockWord, start))

\* newblocks[0] of re.findall(r"\\newblock\s+(.*?)(?=\\newblock|$)", content), or ""
FirstNewblock(content) ==
    IF \E i \in 1..Len(content) : NewblockAt(content, i)
    THEN UpToNewblock(content,
             SkipWhile(content,
                 (CHOOSE i \in 1..Len(content) :
                     /\ NewblockAt(content, i)
                     /\ \A m \in 1..(i - 1) : ~NewblockAt(content, m)) + 9,
                 SpaceChars))
    ELSE <<>>

\* the position after the match of \\href\{[^}]*\}\{[^}]*\} at i, 0 when none
HrefEnd(s, i) ==
    IF /\ MatchAt(s, i, <<"\\","h","r","e","f","{">>)
       /\ Find(s, <<"}">>, i + 6) > 0
       /\ MatchAt(s, Find(s, <<"}">>, i + 6) + 1, <<"{">>)
       /\ Find(s, <<"}">>, Find(s, <<"}">>, i + 6) + 2) > 0
    THEN Find(s, <<"}">>, Find(s, <<"}">>, i + 6) + 2) + 1
    ELSE 0

\* the position after the match of \\url\{[^}]*\} at i, 0 when none
UrlEnd(s, i) ==
    IF MatchAt(s, i, <<"\\","u","r","l","{">>) /\ Find(s, <<"}">>, i + 5) > 0
    THEN Find(s, <<"}">>, i + 5) + 1
    ELSE 0

\* re.sub(r"\\href\{[^}]*\}\{[^}]*\}", "", s) from position i on
RECURSIVE DropHref(_, _)
DropHref(s, i) ==
    IF i > Len(s) THEN <<>>
    ELSE IF HrefEnd(s, i) > 0 THEN DropHref(s, HrefEnd(s, i))
    ELSE <<s[i]>> \o DropHref(s, i + 1)

\* re.sub(r"\\url\{[^}]*\}", "", s) from position i on
RECURSIVE DropUrl(_, _)
DropUrl(s, i) ==
    IF i > Len(s) THEN <<>>
    ELSE IF UrlEnd(s, i) > 0 THEN DropUrl(s, UrlEnd(s, i))
    ELSE <<s[i]>> \o DropUrl(s, i + 1)

\* the title of an entry with the lines entry_lines
CvTitle(entry_lines) ==
    DropUrl(DropHref(Strip(FirstNewblock(JoinSpace(entry_lines))), 1), 1)

\* the entry that extract_cv_entries appends for a bibitem with this key and title
CvEntryOf(key, pending_type, title) ==
    [key |-> key, type |-> pending_type, title |-> title,
     norm_title |-> CountNormaliseTitle(title)]

\* one iteration of the while loop of extract_cv_entries; <<>> stands for None
ExtractStep(st, lines, line) ==
    IF TypeOfTag(line) # <<>>
    THEN [st EXCEPT !.pending_type = TypeOfTag(line), !.i = @ + 1]
    ELSE IF BibitemKey(line) # <<>> /\ st.pending_type # <<>> /\ ~Commented(line)
    THEN [st EXCEPT
            !.entries = Append(@, CvEntryOf(BibitemKey(line), st.pending_type,
                            CvTitle(SubSeq(lines, st.i + 1, CvEntryEnd(lines, st.i + 1) - 1)))),
            !.pending_type = <<>>,
            !.i = CvEntryEnd(lines, st.i + 1)]
    ELSE [st EXCEPT !.i = @ + 1]

RECURSIVE ExtractLoop(_, _)
ExtractLoop(st, lines) ==
    IF st.i > Len(lines) THEN st.entries
    ELSE ExtractLoop(ExtractStep(st, lines, lines[st.i]), lines)

\* extract_cv_entries on the lines of the text
extract_cv_entries(lines) ==
    ExtractLoop([i |-> 1, pending_type |-> <<>>, entries |-> <<>>], lines)

-----------------------------------------------------------------------------
(* tag_cv run on a CV and run again on the text it wrote.  arg is the text *)
(* of the CV; res holds the result of the first run and then the result of *)
(* the call that followed it.                                              *)

MaxCvLines == 3

BibitemA      == <<"\\","b","i","b","i","t","e","m","{","a","}">>
BibitemB      == <<" "," ","\\","b","i","b","i","t","e","m","{","b","}"," ","I","n"," ","X"," ","(","E","d","s",".",")">>
CommentedItem == <<"%"," ","\\","b","i","b","i","t","e","m","{","c","}">>
SoftwareHead  == <<"\\","s","u","b","s","e","c","t","i","o","n","*","{","S","o","f","t","w","a","r","e","}">>
YearHead      == <<"\\","s","u","b","s","u","b","s","e","c","t","i","o","n","*","{","2","0","2","0","}">>
ReviewBlock   == <<"\\","n","e","w","b","l","o","c","k"," ","B","o","o","k"," ","r","e","v","i","e","w">>
OldTag        == <<"%"," ","@","t","y","p","e","{","s","o","f","t","w","a","r","e","}">>
NotedTag      == <<"%"," ","@","t","y","p","e","{","p","r","o","c","e","e","d","i","n","g","}"," ","(","p","r","o","c","e","e","d","i","n","g","s",")">>

CvLinePool == {BibitemA, BibitemB, CommentedItem, SoftwareHead, YearHead,
               ReviewBlock, OldTag, NotedTag}

\* a bibitem line ahead of the bibliography environment, or nothing
CvPreamble == {<<>>, <<BibitemA>>}

InitTag ==
    /\ op = "tag_cv"
    /\ \E pre \in CvPreamble : \E body \in SeqsUpTo(CvLinePool, MaxCvLines) :
          arg = pre \o <<BeginBibWord>> \o body \o <<EndBibWord>>
    /\ res = <<>>
    /\ IdleDedup /\ IdleFormat

\* tag_cv(input_path, output_path)
TagCvCall ==
    /\ op = "tag_cv"
    /\ op' = "tagged"
    /\ res' = <<tag_cv(arg)>>
    /\ UNCHANGED <<arg, dedupVars, formatVars>>

\* tag_cv on the text the first run wrote
TagAgain ==
    /\ op = "tagged"
    /\ op' = "tagged_twice"
    /\ res' = Append(res, tag_cv(res[1].tagged_lines))
    /\ UNCHANGED <<arg, dedupVars, formatVars>>


\* extract_cv_entries on the text the first run wrote
ExtractCall ==
    /\ op = "tagged"
    /\ op' = "extracted"
    /\ res' = Append(res, extract_cv_entries(res[1].tagged_lines))
    /\ UNCHANGED <<arg, dedupVars, formatVars>>

NextTag == TagCvCall \/ TagAgain \/ ExtractCall

SpecTag == InitTag /\ [][NextTag]_vars

\* the line at position k is inside the bibliography environment, as the loop
\* of tag_cv tracks it
InBibliography(lines, k) ==
    \E b \in 1..(k - 1) :
        /\ Contains(lines[b], BeginBibWord)
        /\ \A m \in (b + 1)..(k - 1) :
              Contains(lines[m], EndBibWord) => Contains(lines[m], BeginBibWord)

\* the line at position k is an uncommented bibitem line of the environment
IsCvItem(lines, k) ==
    /\ InBibliography(lines, k)
    /\ BibitemKey(lines[k]) # <<>> /\ ~Commented(lines[k])
    /\ ~Contains(lines[k], BeginBibWord) /\ ~Contains(lines[k], EndBibWord)
    /\ detect_section(lines[k]) = <<>>

\* C29: tag_cv run on the text it wrote writes the same text again, and in
\* the text it wrote every uncommented bibitem line of the bibliography
\* environment has a type tag in the line before it.
C29_TagCvIdempotent ==
    /\ op \in {"tagged", "tagged_twice", "extracted"} =>
          \A k \in 1..Len(res[1].tagged_lines) :
              IsCvItem(res[1].tagged_lines, k) =>
                  k > 1 /\ StartsTypeTag(res[1].tagged_lines[k - 1])
    /\ op = "tagged_twice" => res[2].tagged_lines = res[1].tagged_lines

\* the text has no type tag yet
NoTypeTags(lines) == \A k \in 1..Len(lines) : ~StartsTypeTag(lines[k])

\* the keys and the types of the entries, in their order
KeysAndTypes(es) == [k \in 1..Len(es) |-> <<es[k].key, es[k].type>>]

\* the positions of the tag lines of the text
TagPositions(lines) == {k \in 1..Len(lines) : StartsTypeTag(lines[k])}

\* the tag line at position p is the n-th tag line, with n its rank among them
TagRank(lines, p) == Cardinality({q \in TagPositions(lines) : q <= p})

\* C30: for a CV without type tags, extract_cv_entries on the text that
\* tag_cv wrote returns the bibitems tag_cv tagged, with the same types and
\* in the same order, and the n-th tag line of the text is consumed by the
\* n-th entry alone: it holds that entry's type and the next line holds that
\* entry's key, and there are as many entries as tag lines.
C30_ReaderReturnsTaggedEntries ==
    (op = "extracted" /\ NoTypeTags(arg)) =>
        /\ KeysAndTypes(res[2]) = KeysAndTypes(res[1].entries)
        /\ Cardinality(TagPositions(res[1].tagged_lines)) = Len(res[2])
        /\ \A p \in TagPositions(res[1].tagged_lines) :
              /\ res[1].tagged_lines[p] = TypeTag(res[2][TagRank(res[1].tagged_lines, p)].type)
              /\ p < Len(res[1].tagged_lines)
              /\ BibitemKey(res[1].tagged_lines[p + 1]) = res[2][TagRank(res[1].tagged_lines, p)].key

\* a CV without tags with a bibitem ahead of the environment and, in it, a
\* chapter and a software entry: the reader returned the two, not the first
C30_Witness ==
    /\ op = "extracted" /\ NoTypeTags(arg)
    /\ arg[1] = BibitemA
    /\ Len(res[2]) = 2
    /\ res[2][1].type = ChapterType /\ res[2][2].type = SoftwareType
    /\ KeysAndTypes(res[2]) = KeysAndTypes(res[1].entries)

====
